---- MODULE Spec2Model ----
(***************************************************************************)
(* Model of the docx revision engine of SKILLs/docx: the tracked-change    *)
(* editor (DocxXMLEditor), the comment subsystem and session (Document)    *)
(* and the redlining validator (RedliningValidator).                       *)
(*                                                                         *)
(* An XML part is an arena: a sequence of element records                  *)
(*   [tag, attrs, text, kids]                                              *)
(* indexed from 1, node 1 being the document element.  kids holds the      *)
(* indices of the child elements in document order, text the character     *)
(* data of a leaf (a sequence of one-character strings), attrs a function  *)
(* from attribute names to strings.  A node that the code detaches stays   *)
(* in the arena without a parent, as a detached DOM node does.             *)
(***************************************************************************)
EXTENDS Integers, Sequences, FiniteSets, TLC

VARIABLES
    dom,                \* DocxXMLEditor.dom of word/document.xml
    baseline,           \* word/document.xml inside Document.original_docx
    author,             \* Document.author / DocxXMLEditor.author
    comments_exists,    \* whether word/comments.xml exists
    comments,           \* word/comments.xml: sequence of [id, para_id]
    commentsExtended,   \* word/commentsExtended.xml: [para_id, parent]
    commentsIds,        \* word/commentsIds.xml: [para_id, durable_id]
    commentsExtensible, \* word/commentsExtensible.xml: [durable_id]
    existing_comments,  \* Document.existing_comments: id -> para_id
    next_comment_id,    \* Document.next_comment_id
    pkg,                \* the staging of the session and the directories
    prs,                \* rearrange.py: the presentation and the locals of the run
    hist                \* the calls made so far, each with the tree it left

vars == <<dom, baseline, author, comments_exists, comments, commentsExtended,
          commentsIds, commentsExtensible, existing_comments, next_comment_id,
          pkg, prs, hist>>

-----------------------------------------------------------------------------
(* Bounds of the model *)

\* number of API calls in one session
MaxOps == 3

\* number of elements a document may have created for a call to be followed
MaxNodes == 16

-----------------------------------------------------------------------------
(* Session constants *)

\* Document.rsid, the session token
Rsid == "RSID_S"

\* datetime.now(timezone.utc).strftime(...) of the session's calls
Timestamp == "T_NOW"

\* no presentation is open: the session edits a Word document
NoPresentation == [pc |-> "none"]

\* the author name the redlining validator looks for
ValidatorAuthor == "Claude"

NoAttrs == [x \in {} |-> ""]

Node(tag, attrs, text, kids) ==
    [tag |-> tag, attrs |-> attrs, text |-> text, kids |-> kids]

Root == 1

-----------------------------------------------------------------------------
(* Sequences *)

Range(s) == {s[i] : i \in 1..Len(s)}

\* the sequence s as a tuple, each element computed once
Tup(s) == <<>> \o s

\* F(v), with v computed once, before F is applied
Let(v, F(_)) == CHOOSE r \in {F(x) : x \in {v}} : TRUE

IndexOf(s, x) == CHOOSE i \in 1..Len(s) : s[i] = x

\* s with the sequence ins put in after position i (0: in front)
InsertAt(s, i, ins) == SubSeq(s, 1, i) \o ins \o SubSeq(s, i + 1, Len(s))

RemoveAt(s, i) == SubSeq(s, 1, i - 1) \o SubSeq(s, i + 1, Len(s))

RECURSIVE Flatten(_)
Flatten(ss) == IF ss = <<>> THEN <<>> ELSE Head(ss) \o Flatten(Tail(ss))

-----------------------------------------------------------------------------
(* int(str) and str(int) on w:id values *)

Decimal == <<"0", "1", "2", "3", "4", "5", "6", "7", "8", "9", "10", "11",
             "12", "13", "14", "15", "16", "17", "18", "19", "20", "21",
             "22", "23", "24", "25", "26", "27", "28", "29", "30">>

\* str(n) for a non-negative n
StrOfInt(n) == Decimal[n + 1]

\* spellings int() accepts besides the canonical one
OtherSpelling == [s \in {"02", "-3"} |-> IF s = "02" THEN 2 ELSE 0 - 3]

\* whether int(s) returns (no ValueError)
IsInt(s) == s \in Range(Decimal) \/ s \in DOMAIN OtherSpelling

IntOfStr(s) ==
    IF s \in DOMAIN OtherSpelling THEN OtherSpelling[s]
    ELSE (CHOOSE i \in 1..Len(Decimal) : Decimal[i] = s) - 1

-----------------------------------------------------------------------------
(* DOM access *)

HasAttr(d, n, a) == a \in DOMAIN d[n].attrs

\* getAttribute: "" for an attribute that is absent
GetAttr(d, n, a) == IF HasAttr(d, n, a) THEN d[n].attrs[a] ELSE ""

SetAttr(d, n, a, v) == [d EXCEPT ![n].attrs = (a :> v) @@ @]

RemoveAttr(d, n, a) ==
    [d EXCEPT ![n].attrs = [x \in (DOMAIN @) \ {a} |-> @[x]] @@ NoAttrs]

HasParent(d, n) == \E p \in 1..Len(d) : n \in Range(d[p].kids)

\* parentNode
Parent(d, n) == CHOOSE p \in 1..Len(d) : n \in Range(d[p].kids)

RECURSIVE InOrder(_, _)
\* the elements ks and their descendants in document order
InOrder(d, ks) ==
    IF ks = <<>> THEN <<>>
    ELSE (<<Head(ks)>> \o InOrder(d, d[Head(ks)].kids)) \o InOrder(d, Tail(ks))

\* the descendants of n in document order, n excluded
Descendants(d, n) == InOrder(d, d[n].kids)

\* elem.getElementsByTagName(tag)
getElementsByTagName(d, n, tag) ==
    SelectSeq(Descendants(d, n), LAMBDA x : d[x].tag = tag)

\* the elements of the part: the nodes reachable from the document element
Attached(d) == {Root} \cup Range(Descendants(d, Root))

\* parentNode, 0 for a node that has none
ParentOrNone(d, n) ==
    IF \E p \in 1..Len(d) : n \in Range(d[p].kids)
    THEN CHOOSE p \in 1..Len(d) : n \in Range(d[p].kids)
    ELSE 0

RECURSIVE AncestorsFrom(_, _)
AncestorsFrom(d, p) ==
    IF p = 0 THEN {} ELSE {p} \cup AncestorsFrom(d, ParentOrNone(d, p))

\* the proper ancestors of n
Ancestors(d, n) == AncestorsFrom(d, ParentOrNone(d, n))
-----------------------------------------------------------------------------
(* DocxXMLEditor: change ids and the attribute injector *)

Max(S) == CHOOSE x \in S : \A y \in S : y <= x

\* the w:ins and w:del elements of the part
ChangeElements(d) == {n \in Attached(d) : d[n].tag \in {"w:ins", "w:del"}}

\* _get_next_change_id: one past the largest integer w:id of a w:ins or
\* w:del of the part, 0 when there is none
get_next_change_id(d) ==
    Max({IntOfStr(GetAttr(d, n, "w:id")) :
            n \in {m \in ChangeElements(d) : /\ GetAttr(d, m, "w:id") # ""
                                             /\ IsInt(GetAttr(d, m, "w:id"))}}
        \cup {0 - 1}) + 1

\* _ensure_w16du_namespace, _ensure_w14_namespace: declare a prefix on the
\* document element
ensure_namespace(d, decl) ==
    IF HasAttr(d, Root, decl) THEN d ELSE SetAttr(d, Root, decl, "ns")

\* is_inside_deletion
is_inside_deletion(d, e) == \E a \in Ancestors(d, e) : d[a].tag = "w:del"

SetIfAbsent(d, e, a, v) == IF HasAttr(d, e, a) THEN d ELSE SetAttr(d, e, a, v)

\* "if not elem.hasAttribute(a): elem.setAttribute(a, v)" for each a :> v
\* of defaults
SetDefaults(d, e, defaults) == [d EXCEPT ![e].attrs = @ @@ defaults]

\* "if not elem.hasAttribute(a): elem.setAttribute(a, _generate_hex_id())"
\* on s = [d, hs], hs the values _generate_hex_id will return
set_hex_id(s, e, a) ==
    IF HasAttr(s.d, e, a) THEN s
    ELSE [d |-> SetAttr(ensure_namespace(s.d, "xmlns:w14"), e, a, Head(s.hs)),
          hs |-> Tail(s.hs)]

\* add_rsid_to_p
add_rsid_to_p(s, e) ==
    set_hex_id(set_hex_id(
        [s EXCEPT !.d = SetDefaults(@, e, ("w:rsidR" :> Rsid)
                                          @@ ("w:rsidRDefault" :> Rsid)
                                          @@ ("w:rsidP" :> Rsid))],
        e, "w14:paraId"), e, "w14:textId")

\* add_rsid_to_r
add_rsid_to_r(s, e) ==
    [s EXCEPT !.d = IF is_inside_deletion(@, e)
                    THEN SetIfAbsent(@, e, "w:rsidDel", Rsid)
                    ELSE SetIfAbsent(@, e, "w:rsidR", Rsid)]

\* str.isspace on one character
isspace(c) == c \in {" ", "\n"}

\* "text and (text[0].isspace() or text[-1].isspace())"
NeedsPreserve(text) == text # <<>> /\ (isspace(text[1]) \/ isspace(text[Len(text)]))

\* an injector that leaves the text leaves as they are
leave_t_alone(s, e) == s

\* add_xml_space_to_t
add_xml_space_to_t(s, e) ==
    [s EXCEPT !.d = IF NeedsPreserve(@[e].text)
                    THEN SetIfAbsent(@, e, "xml:space", "preserve")
                    ELSE @]

\* an injector that gives every w:ins and w:del the next id
allocate_always(d, e) == SetAttr(d, e, "w:id", StrOfInt(get_next_change_id(d)))

\* "if not elem.hasAttribute('w:id'): ... str(self._get_next_change_id())"
set_change_id(d, e) ==
    IF HasAttr(d, e, "w:id") THEN d
    ELSE SetAttr(d, e, "w:id", StrOfInt(get_next_change_id(d)))

\* the w16du:dateUtc of a w:ins or w:del
set_date_utc(d, e) ==
    IF HasAttr(d, e, "w16du:dateUtc") THEN d
    ELSE SetAttr(ensure_namespace(d, "xmlns:w16du"), e, "w16du:dateUtc", Timestamp)

\* add_tracked_change_attrs
add_tracked_change_attrs(s, e) ==
    Let(set_change_id(s.d, e), LAMBDA d1 :
        [s EXCEPT !.d = set_date_utc(
                           SetDefaults(d1, e, ("w:author" :> author) @@ ("w:date" :> Timestamp)),
                           e)])

\* the branch of the injector for one element
inject_one(s, e) ==
    CASE s.d[e].tag = "w:p" -> add_rsid_to_p(s, e)
      [] s.d[e].tag = "w:r" -> add_rsid_to_r(s, e)
      [] s.d[e].tag = "w:t" -> add_xml_space_to_t(s, e)
      [] s.d[e].tag \in {"w:ins", "w:del"} -> add_tracked_change_attrs(s, e)
      [] OTHER -> s

RECURSIVE inject_each(_, _)
inject_each(s, es) ==
    IF es = <<>> THEN s
    ELSE Let(inject_one(s, Head(es)), LAMBDA t : inject_each(t, Tail(es)))

\* the body of the injector's loop for one node: the node, then its
\* descendants tag by tag (the injector changes attributes only, so the
\* element lists are those of the tree it starts from)
inject_node(s, n) ==
    Let(inject_each(inject_each(inject_one(s, n),
                                getElementsByTagName(s.d, n, "w:p")),
                    getElementsByTagName(s.d, n, "w:r")), LAMBDA s1 :
    Let(inject_each(s1, getElementsByTagName(s.d, n, "w:t")), LAMBDA s2 :
    Let(inject_each(s2, getElementsByTagName(s.d, n, "w:ins")), LAMBDA s3 :
        inject_each(s3, getElementsByTagName(s.d, n, "w:del")))))

RECURSIVE inject_attributes_to_nodes(_, _)
\* _inject_attributes_to_nodes(nodes) on s = [d, hs]
inject_attributes_to_nodes(s, nodes) ==
    IF nodes = <<>> THEN s
    ELSE Let(inject_node(s, Head(nodes)),
             LAMBDA t : inject_attributes_to_nodes(t, Tail(nodes)))

-----------------------------------------------------------------------------
(* XMLEditor: the mutation primitives of the base editor.  A fragment is   *)
(* the parsed xml_content: [nodes, roots], an arena of its own whose       *)
(* top-level elements are roots.                                           *)

Shift(f, k) == Tup([i \in 1..Len(f) |->
                  [f[i] EXCEPT !.kids = Tup([j \in 1..Len(@) |-> @[j] + k])]])

\* the elements of the fragment once created in the part's document
NewNodes(d, frag) == Tup([j \in 1..Len(frag.roots) |-> frag.roots[j] + Len(d)])

\* XMLEditor.insert_after: the new nodes become the next siblings of elem
XMLEditor_insert_after(d, elem, frag) ==
    [d |-> [d \o Shift(frag.nodes, Len(d)) EXCEPT ![Parent(d, elem)].kids =
               InsertAt(@, IndexOf(@, elem), NewNodes(d, frag))],
     nodes |-> NewNodes(d, frag)]

\* XMLEditor.insert_before: the new nodes become the previous siblings
XMLEditor_insert_before(d, elem, frag) ==
    [d |-> [d \o Shift(frag.nodes, Len(d)) EXCEPT ![Parent(d, elem)].kids =
               InsertAt(@, IndexOf(@, elem) - 1, NewNodes(d, frag))],
     nodes |-> NewNodes(d, frag)]

\* XMLEditor.append_to: the new nodes become the last children of elem
XMLEditor_append_to(d, elem, frag) ==
    [d |-> [d \o Shift(frag.nodes, Len(d)) EXCEPT ![elem].kids = @ \o NewNodes(d, frag)],
     nodes |-> NewNodes(d, frag)]

\* XMLEditor.replace_node: the new nodes take the place of elem
XMLEditor_replace_node(d, elem, frag) ==
    [d |-> [d \o Shift(frag.nodes, Len(d)) EXCEPT ![Parent(d, elem)].kids =
               RemoveAt(InsertAt(@, IndexOf(@, elem), NewNodes(d, frag)), IndexOf(@, elem))],
     nodes |-> NewNodes(d, frag)]

(* DocxXMLEditor: the primitives followed by the injector; hs are the      *)
(* values _generate_hex_id returns during the call                         *)

Injected(r, hs) ==
    Let(r, LAMBDA x : [d |-> inject_attributes_to_nodes([d |-> x.d, hs |-> hs], x.nodes).d,
                       nodes |-> x.nodes])

replace_node(d, elem, frag, hs) == Injected(XMLEditor_replace_node(d, elem, frag), hs)

insert_after(d, elem, frag, hs) == Injected(XMLEditor_insert_after(d, elem, frag), hs)

insert_before(d, elem, frag, hs) == Injected(XMLEditor_insert_before(d, elem, frag), hs)

append_to(d, elem, frag, hs) == Injected(XMLEditor_append_to(d, elem, frag), hs)
-----------------------------------------------------------------------------
(* DocxXMLEditor: the revision operations.  Each returns                   *)
(* [ok, d, ret]: whether it returned (FALSE: it raised ValueError), the    *)
(* tree it leaves and the nodes it returns.                                *)

Replace(s, old, new) == Tup([i \in 1..Len(s) |-> IF s[i] = old THEN new ELSE s[i]])

RECURSIVE convert_leaves(_, _, _)
\* the loop "for t_elem in list(...)": a new element of the other kind takes
\* the character data and a copy of the attributes of each leaf and replaces it
convert_leaves(d, leaves, tag) ==
    IF leaves = <<>> THEN d
    ELSE Let([Append(d, Node(tag, d[Head(leaves)].attrs, d[Head(leaves)].text, <<>>))
                EXCEPT ![Head(leaves)].text = <<>>,
                       ![Parent(d, Head(leaves))].kids = Replace(@, Head(leaves), Len(d) + 1)],
             LAMBDA d1 : convert_leaves(d1, Tail(leaves), tag))

\* "for t_elem in list(elem.getElementsByTagName(from)): ..."
convert_all(d, elem, from, to) ==
    convert_leaves(d, getElementsByTagName(d, elem, from), to)

\* the session-token attribute of a run moves from one name to the other
move_rsid(d, run, from, to) ==
    IF HasAttr(d, run, from)
    THEN RemoveAttr(SetAttr(d, run, to, GetAttr(d, run, from)), run, from)
    ELSE SetIfAbsent(d, run, to, Rsid)

RECURSIVE move_rsid_each(_, _, _, _)
move_rsid_each(d, runs, from, to) ==
    IF runs = <<>> THEN d
    ELSE Let(move_rsid(d, Head(runs), from, to),
             LAMBDA d1 : move_rsid_each(d1, Tail(runs), from, to))

\* "for run in elem.getElementsByTagName('w:r'): ..."
move_rsid_all(d, elem, from, to) ==
    move_rsid_each(d, getElementsByTagName(d, elem, "w:r"), from, to)

\* an operation that returns where it should raise
ReturnUnchanged(d) == [ok |-> TRUE, d |-> d, ret |-> <<>>]

\* "raise ValueError(...)": the call ends with the tree as it is
Raise(d) == [ok |-> FALSE, d |-> d, ret |-> <<>>]

\* self._inject_attributes_to_nodes([wrapper]) for the wrapper that was
\* created last.  The paragraphs below a wrapper are paragraphs of the part,
\* which carry their w14:paraId and w14:textId, so _generate_hex_id is not
\* called (hs is empty).
inject_last(d) == inject_attributes_to_nodes([d |-> d, hs |-> <<>>], <<Len(d)>>).d

\* a new w:del takes the place of the run and the run becomes its child
wrap_run_in_del(d, elem) ==
    [Append(d, Node("w:del", NoAttrs, <<>>, <<elem>>))
        EXCEPT ![Parent(d, elem)].kids = Replace(@, elem, Len(d) + 1)]

\* the result of the w:r branch: the wrapper, the node created last
ReturnLast(d) == [ok |-> TRUE, d |-> d, ret |-> <<Len(d)>>]

\* suggest_deletion, the w:r branch
suggest_deletion_run(d, elem) ==
    IF getElementsByTagName(d, elem, "w:delText") # <<>> THEN Raise(d)
    ELSE Let(convert_all(d, elem, "w:t", "w:delText"), LAMBDA d1 :
         Let(wrap_run_in_del(move_rsid(d1, elem, "w:rsidR", "w:rsidDel"), elem),
             LAMBDA d2 : ReturnLast(inject_last(d2))))

\* "if not rPr_list: rPr = createElement('w:rPr'); pPr.appendChild(rPr)"
ensure_rPr(d, pPr) ==
    IF getElementsByTagName(d, pPr, "w:rPr") = <<>>
    THEN [Append(d, Node("w:rPr", NoAttrs, <<>>, <<>>)) EXCEPT ![pPr].kids = Append(@, Len(d) + 1)]
    ELSE d

\* a new empty element becomes the first child of the first w:rPr of pPr
add_marker(d, pPr, tag) ==
    [Append(d, Node(tag, NoAttrs, <<>>, <<>>))
        EXCEPT ![getElementsByTagName(d, pPr, "w:rPr")[1]].kids = <<Len(d) + 1>> \o @]

\* "pPr_list and pPr_list[0].getElementsByTagName('w:numPr')"
is_numbered(d, elem) ==
    /\ getElementsByTagName(d, elem, "w:pPr") # <<>>
    /\ getElementsByTagName(d, getElementsByTagName(d, elem, "w:pPr")[1], "w:numPr") # <<>>

\* the <w:del/> marker of a numbered-list paragraph
add_del_marker(d, elem) ==
    IF is_numbered(d, elem)
    THEN add_marker(ensure_rPr(d, getElementsByTagName(d, elem, "w:pPr")[1]),
                    getElementsByTagName(d, elem, "w:pPr")[1], "w:del")
    ELSE d

\* a wrapper that becomes the first child of elem
wrap_content_first(d, elem, tag) ==
    [Append(d, Node(tag, NoAttrs, <<>>, SelectSeq(d[elem].kids, LAMBDA c : d[c].tag # "w:pPr")))
        EXCEPT ![elem].kids = <<Len(d) + 1>> \o SelectSeq(@, LAMBDA c : d[c].tag = "w:pPr")]

\* "Wrap all non-pPr children": a new wrapper, last child of elem, takes them
wrap_content(d, elem, tag) ==
    [Append(d, Node(tag, NoAttrs, <<>>, SelectSeq(d[elem].kids, LAMBDA c : d[c].tag # "w:pPr")))
        EXCEPT ![elem].kids = SelectSeq(@, LAMBDA c : d[c].tag = "w:pPr") \o <<Len(d) + 1>>]

\* suggest_deletion, the w:p branch
suggest_deletion_paragraph(d, elem) ==
    IF getElementsByTagName(d, elem, "w:ins") # <<>>
       \/ getElementsByTagName(d, elem, "w:del") # <<>>
    THEN Raise(d)
    ELSE Let(convert_all(add_del_marker(d, elem), elem, "w:t", "w:delText"), LAMBDA d1 :
         Let(wrap_content(move_rsid_all(d1, elem, "w:rsidR", "w:rsidDel"), elem, "w:del"),
             LAMBDA d2 : [ok |-> TRUE, d |-> inject_last(d2), ret |-> <<elem>>]))

\* DocxXMLEditor.suggest_deletion
suggest_deletion(d, elem) ==
    CASE d[elem].tag = "w:r" -> suggest_deletion_run(d, elem)
      [] d[elem].tag = "w:p" -> suggest_deletion_paragraph(d, elem)
      [] OTHER -> Raise(d)

\* no text leaf at all
no_leaves(d, elem, tag) == <<>>

\* the w:t elements below the runs of elem, each once, in document order
leaves_of_runs(d, elem, tag) ==
    SelectSeq(getElementsByTagName(d, elem, tag),
              LAMBDA x : \E a \in Ancestors(d, x) :
                            a \in Range(getElementsByTagName(d, elem, "w:r")))

\* "while ins_elem.firstChild: del_wrapper.appendChild(...)" and
\* "ins_elem.appendChild(del_wrapper)"
wrap_children(d, elem, tag) ==
    [Append(d, Node(tag, NoAttrs, <<>>, d[elem].kids)) EXCEPT ![elem].kids = <<Len(d) + 1>>]

\* the body of the loop of revert_insertion for one w:ins
revert_one_insertion(d, ins_elem) ==
    IF getElementsByTagName(d, ins_elem, "w:r") = <<>> THEN d
    ELSE Let(move_rsid_all(d, ins_elem, "w:rsidR", "w:rsidDel"), LAMBDA d1 :
         Let(wrap_children(convert_leaves(d1, leaves_of_runs(d, ins_elem, "w:t"),
                                          "w:delText"), ins_elem, "w:del"),
             LAMBDA d2 : inject_last(d2)))

RECURSIVE revert_insertion_each(_, _)
revert_insertion_each(d, ins_elements) ==
    IF ins_elements = <<>> THEN d
    ELSE Let(revert_one_insertion(d, Head(ins_elements)),
             LAMBDA d1 : revert_insertion_each(d1, Tail(ins_elements)))

\* DocxXMLEditor.revert_insertion
revert_insertion(d, elem) ==
    IF d[elem].tag # "w:ins" /\ getElementsByTagName(d, elem, "w:ins") = <<>>
    THEN Raise(d)
    ELSE [ok |-> TRUE,
          d |-> revert_insertion_each(d, IF d[elem].tag = "w:ins" THEN <<elem>>
                                         ELSE getElementsByTagName(d, elem, "w:ins")),
          ret |-> <<elem>>]

\* cloneNode(True) of d's node n, appended to the arena f: the copy of n is
\* node Len(f) + 1 of the result, its descendants follow in document order
clone_node(f, d, n) ==
    f \o [i \in 1..(1 + Len(Descendants(d, n))) |->
            [d[(<<n>> \o Descendants(d, n))[i]] EXCEPT !.kids =
                Tup([j \in 1..Len(@) |-> Len(f) + IndexOf(<<n>> \o Descendants(d, n), @[j])])]]

\* toxml() followed by the parse of the primitive: the elements reachable
\* from node n of arena f, as a fragment
toxml(f, n) == [nodes |-> clone_node(<<>>, f, n), roots |-> <<1>>]

\* the body of the loop "for run in runs" of revert_deletion on the detached
\* w:ins (node 1 of arena f): clone, w:delText -> w:t, w:rsidDel -> w:rsidR,
\* append
clone_run(f, d, run) ==
    Let(clone_node(f, d, run), LAMBDA f1 :
    Let(convert_all(f1, Len(f) + 1, "w:delText", "w:t"), LAMBDA f2 :
        [move_rsid(f2, Len(f) + 1, "w:rsidDel", "w:rsidR")
            EXCEPT ![1].kids = Append(@, Len(f) + 1)]))

RECURSIVE clone_runs(_, _, _)
clone_runs(f, d, runs) ==
    IF runs = <<>> THEN f
    ELSE Let(clone_run(f, d, Head(runs)), LAMBDA f1 : clone_runs(f1, d, Tail(runs)))

\* a loop body that puts the restored runs in the place of the w:del
restore_in_place(s, del_elem) ==
    IF getElementsByTagName(s.d, del_elem, "w:r") = <<>> THEN s
    ELSE Let(clone_runs(<<Node("w:ins", NoAttrs, <<>>, <<>>)>>, s.d,
                        getElementsByTagName(s.d, del_elem, "w:r")), LAMBDA f :
         Let(toxml(f, 1), LAMBDA frag : replace_node(s.d, del_elem, frag, <<>>)))

\* the body of the loop of revert_deletion for one w:del; s = [d, nodes]:
\* the tree and the nodes the last insert_after returned
revert_one_deletion(s, del_elem) ==
    IF getElementsByTagName(s.d, del_elem, "w:r") = <<>> THEN s
    ELSE Let(clone_runs(<<Node("w:ins", NoAttrs, <<>>, <<>>)>>, s.d,
                        getElementsByTagName(s.d, del_elem, "w:r")), LAMBDA f :
         Let(toxml(f, 1), LAMBDA frag : insert_after(s.d, del_elem, frag, <<>>)))

RECURSIVE revert_deletion_each(_, _)
revert_deletion_each(s, del_elements) ==
    IF del_elements = <<>> THEN s
    ELSE Let(revert_one_deletion(s, Head(del_elements)),
             LAMBDA s1 : revert_deletion_each(s1, Tail(del_elements)))

\* "return [elem, created_insertion]" or "return [elem]"
revert_deletion_result(d, elem, s) ==
    [ok |-> TRUE, d |-> s.d,
     ret |-> IF d[elem].tag = "w:del" /\ s.nodes # <<>>
             THEN <<elem, s.nodes[1]>> ELSE <<elem>>]

\* DocxXMLEditor.revert_deletion
revert_deletion(d, elem) ==
    IF d[elem].tag # "w:del" /\ getElementsByTagName(d, elem, "w:del") = <<>>
    THEN Raise(d)
    ELSE Let(revert_deletion_each([d |-> d, nodes |-> <<>>],
                                  IF d[elem].tag = "w:del" THEN <<elem>>
                                  ELSE getElementsByTagName(d, elem, "w:del")),
             LAMBDA s : revert_deletion_result(d, elem, s))

\* "if not pPr_list: ... para.insertBefore(pPr, para.firstChild)"
ensure_pPr(f, para) ==
    IF getElementsByTagName(f, para, "w:pPr") = <<>>
    THEN [Append(f, Node("w:pPr", NoAttrs, <<>>, <<>>)) EXCEPT ![para].kids = <<Len(f) + 1>> \o @]
    ELSE f

\* the steps of suggest_paragraph once the w:pPr exists
mark_and_wrap(f, para) ==
    wrap_content(add_marker(ensure_rPr(f, getElementsByTagName(f, para, "w:pPr")[1]),
                            getElementsByTagName(f, para, "w:pPr")[1], "w:ins"),
                 para, "w:ins")

\* DocxXMLEditor.suggest_paragraph on the fragment of one w:p (node 1 of
\* frag.nodes): the parsed form of the string it returns
suggest_paragraph(frag) == toxml(mark_and_wrap(ensure_pPr(frag.nodes, 1), 1), 1)
-----------------------------------------------------------------------------
(* RedliningValidator *)

\* elem.get(author_attr) == "Claude" on an element with the given tag
IsClaudeChange(d, n, tag) ==
    d[n].tag = tag /\ GetAttr(d, n, "w:author") = ValidatorAuthor

\* the children of n that the first loop leaves
kept_children(d, n) ==
    SelectSeq(d[n].kids, LAMBDA c : ~IsClaudeChange(d, c, "w:ins"))

RECURSIVE remove_ins(_, _)
\* first loop of _remove_claude_tracked_changes; work holds the elements
\* root.iter() has still to yield: the w:ins children by "Claude" of the
\* next one go, then the iteration goes on into the children that are left
remove_ins(d, work) ==
    IF work = <<>> THEN d
    ELSE Let([d EXCEPT ![Head(work)].kids = kept_children(d, Head(work))],
             LAMBDA d1 : remove_ins(d1, d1[Head(work)].kids \o Tail(work)))

\* "for elem in del_elem.iter(): if elem.tag == deltext_tag: elem.tag = t_tag"
\* with ns the elements that del_elem.iter() yields
retag_deltext(d, ns) ==
    Tup([i \in 1..Len(d) |-> IF i \in Range(ns) /\ d[i].tag = "w:delText"
                              THEN [d[i] EXCEPT !.tag = "w:t"] ELSE d[i]])

\* list.remove(x)
RemoveElem(s, x) == RemoveAt(s, IndexOf(s, x))

\* "for child in reversed(list(del_elem)): parent.insert(del_index, child)"
\* and "parent.remove(del_elem)"; del_index counts from 1 here
splice(d, parent, del_elem, del_index) ==
    [d EXCEPT ![parent].kids =
        RemoveElem(InsertAt(@, del_index - 1, d[del_elem].kids), del_elem)]

\* the body of the loop over reversed(to_process)
unwrap_one(d, parent, del_elem, del_index) ==
    splice(retag_deltext(d, <<del_elem>> \o Descendants(d, del_elem)),
           parent, del_elem, del_index)

RECURSIVE unwrap_each(_, _, _)
\* "for del_elem, del_index in reversed(to_process)"
unwrap_each(d, parent, to_process) ==
    IF to_process = <<>> THEN d
    ELSE Let(unwrap_one(d, parent, to_process[Len(to_process)][1],
                        to_process[Len(to_process)][2]),
             LAMBDA d1 : unwrap_each(d1, parent, SubSeq(to_process, 1, Len(to_process) - 1)))

\* the positions of the w:del children by "Claude" of parent
del_positions(d, parent) ==
    SelectSeq(Tup([i \in 1..Len(d[parent].kids) |-> i]),
              LAMBDA i : IsClaudeChange(d, d[parent].kids[i], "w:del"))

\* to_process: the w:del children by "Claude" of parent with their positions
to_process_of(d, parent) ==
    Tup([k \in 1..Len(del_positions(d, parent)) |->
        <<d[parent].kids[del_positions(d, parent)[k]], del_positions(d, parent)[k]>>])

RECURSIVE unwrap_del(_, _)
\* second loop of _remove_claude_tracked_changes; work holds the elements
\* root.iter() has still to yield: the w:del children by "Claude" of the next
\* one are unwrapped, then the iteration goes on into the children it has
unwrap_del(d, work) ==
    IF work = <<>> THEN d
    ELSE Let(unwrap_each(d, Head(work), to_process_of(d, Head(work))),
             LAMBDA d1 : unwrap_del(d1, d1[Head(work)].kids \o Tail(work)))

\* RedliningValidator._remove_claude_tracked_changes(root)
remove_claude_tracked_changes(d) ==
    Let(remove_ins(d, <<Root>>), LAMBDA d1 : unwrap_del(d1, <<Root>>))

\* the text of the w:t elements below p that have text, concatenated
paragraph_text(d, p) ==
    Flatten(Tup([i \in 1..Len(getElementsByTagName(d, p, "w:t")) |->
                    d[getElementsByTagName(d, p, "w:t")[i]].text]))

RECURSIVE join(_)
\* "\n".join(paragraphs)
join(ps) ==
    IF ps = <<>> THEN <<>>
    ELSE IF Len(ps) = 1 THEN ps[1]
    ELSE ps[1] \o <<"\n">> \o join(Tail(ps))

\* the texts of the paragraphs below the root, in document order
paragraph_texts(d) ==
    Tup([i \in 1..Len(getElementsByTagName(d, Root, "w:p")) |->
        paragraph_text(d, getElementsByTagName(d, Root, "w:p")[i])])

\* RedliningValidator._extract_text_content(root)
extract_text_content(d) == join(SelectSeq(paragraph_texts(d), LAMBDA t : t # <<>>))

\* a first step that finds changes in every part
always_compare(d) == TRUE

\* the first step of validate: some w:del or w:ins below the root of the
\* edited part has the author "Claude"
has_claude_changes(d) ==
    \E n \in Range(Descendants(d, Root)) :
        IsClaudeChange(d, n, "w:del") \/ IsClaudeChange(d, n, "w:ins")

\* RedliningValidator.validate(): modified is the edited word/document.xml,
\* original the one of the baseline package
redlining_validate(modified, original) ==
    IF ~has_claude_changes(modified) THEN TRUE
    ELSE Let(remove_claude_tracked_changes(modified), LAMBDA m :
         Let(remove_claude_tracked_changes(original), LAMBDA o :
             extract_text_content(m) = extract_text_content(o)))

-----------------------------------------------------------------------------
(* Document: what __init__ reads from word/comments.xml, a sequence of      *)
(* [id, para_id]: the w:id of a w:comment and the w14:paraId of its w:p.    *)

\* the number of comments of the comments part cs
count_comments(exists, cs) == Len(cs)

\* _get_next_comment_id on the comments part cs
get_next_comment_id(exists, cs) ==
    IF ~exists THEN 0
    ELSE Max({IntOfStr(cs[i].id) : i \in {j \in 1..Len(cs) : cs[j].id # "" /\ IsInt(cs[j].id)}}
             \cup {0 - 1}) + 1

\* _load_existing_comments on the comments part cs: comment id -> para_id
load_existing_comments(exists, cs) ==
    IF ~exists THEN <<>>
    ELSE [k \in {IntOfStr(cs[i].id) : i \in {j \in 1..Len(cs) : cs[j].id # "" /\ cs[j].para_id # ""}}
            |-> cs[CHOOSE i \in 1..Len(cs) :
                     /\ cs[i].id # "" /\ cs[i].para_id # ""
                     /\ IntOfStr(cs[i].id) = k
                     /\ \A j \in (i + 1)..Len(cs) :
                            ~(cs[j].id # "" /\ cs[j].para_id # "" /\ IntOfStr(cs[j].id) = k)].para_id]
        @@ <<>>

-----------------------------------------------------------------------------
(* Document: the package around word/document.xml.  The relationships part *)
(* is the sequence of its Relationship elements [id, target], id being the *)
(* number n of Id="rIdn"; [Content_Types].xml is the sequence of the       *)
(* PartName values of its Override elements; the w:rsids section of        *)
(* settings.xml is [exists, root, vals], vals being the w:val values of    *)
(* its w:rsid elements.                                                    *)

\* the four comment parts, in the order add_comment writes them
CommentParts == <<"comments.xml", "commentsExtended.xml", "commentsIds.xml",
                  "commentsExtensible.xml">>

\* the PartName of the Override of each comment part
CommentPartNames == <<"/word/comments.xml", "/word/commentsExtended.xml",
                      "/word/commentsIds.xml", "/word/commentsExtensible.xml">>

\* _has_relationship(editor, target)
has_relationship(rels, target) == \E i \in 1..Len(rels) : rels[i].target = target

\* _has_override(editor, part_name)
has_override(types, part_name) == \E i \in 1..Len(types) : types[i] = part_name

\* XMLEditor.get_next_rid: the number after the largest one in use
get_next_rid(rels) == Max({rels[i].id : i \in 1..Len(rels)} \cup {0}) + 1

\* _add_relationship_for_people
add_relationship_for_people(rels) ==
    IF has_relationship(rels, "people.xml") THEN rels
    ELSE Append(rels, [id |-> get_next_rid(rels), target |-> "people.xml"])

\* _add_content_type_for_people
add_content_type_for_people(types) ==
    IF has_override(types, "/word/people.xml") THEN types
    ELSE Append(types, "/word/people.xml")

\* a registry that takes the token whether or not it holds it
register_again(rsids, rsid) ==
    [exists |-> TRUE, root |-> rsids.root, vals |-> Append(rsids.vals, rsid)]

\* _update_settings, the w:rsids section: a new section with the token as
\* w:rsidRoot and w:rsid, or one more w:rsid unless one has the token
update_settings(rsids, rsid) ==
    IF ~rsids.exists THEN [exists |-> TRUE, root |-> rsid, vals |-> <<rsid>>]
    ELSE IF \E i \in 1..Len(rsids.vals) : rsids.vals[i] = rsid THEN rsids
    ELSE [rsids EXCEPT !.vals = Append(@, rsid)]

\* the four Relationship elements _ensure_comment_relationships appends
comment_rels(next_rid_num) ==
    Tup([i \in 1..Len(CommentParts) |->
            [id |-> next_rid_num + i - 1, target |-> CommentParts[i]]])

\* a step that declares the parts on every save
declare_again(rels) == rels \o comment_rels(get_next_rid(rels))

\* _ensure_comment_relationships
ensure_comment_relationships(rels) ==
    IF has_relationship(rels, "comments.xml") THEN rels
    ELSE rels \o comment_rels(get_next_rid(rels))

\* _ensure_comment_content_types
ensure_comment_content_types(types) ==
    IF has_override(types, "/word/comments.xml") THEN types
    ELSE types \o CommentPartNames
-----------------------------------------------------------------------------
(* DOCXSchemaValidator.  The checks of the base validator take their       *)
(* verdict from o, a record of the outcomes of the checks on the package;  *)
(* the checks of the Word validator are computed on word/document.xml.     *)

\* the checks of the battery in the order validate() calls them
Battery == <<"validate_xml", "validate_namespaces", "validate_unique_ids",
             "validate_file_references", "validate_content_types",
             "validate_against_xsd", "validate_whitespace_preservation",
             "validate_deletions", "validate_insertions",
             "validate_all_relationship_ids">>

\* the checks of the base validator
BaseChecks == {"validate_xml", "validate_namespaces", "validate_unique_ids",
               "validate_file_references", "validate_content_types",
               "validate_against_xsd", "validate_all_relationship_ids"}

\* validate_whitespace_preservation: every w:t with text that starts or ends
\* with whitespace has xml:space="preserve"
validate_whitespace_preservation(d) ==
    \A n \in Attached(d) :
        (d[n].tag = "w:t" /\ NeedsPreserve(d[n].text))
            => GetAttr(d, n, "xml:space") = "preserve"

\* validate_deletions: no w:t with text below a w:del
validate_deletions(d) ==
    \A n \in Attached(d) :
        (d[n].tag = "w:t" /\ d[n].text # <<>>) => ~is_inside_deletion(d, n)

\* validate_insertions: no w:delText below a w:ins unless it is below a w:del
validate_insertions(d) ==
    \A n \in Attached(d) :
        (d[n].tag = "w:delText" /\ \E a \in Ancestors(d, n) : d[a].tag = "w:ins")
            => is_inside_deletion(d, n)

\* the verdict of one check
check(d, o, name) ==
    CASE name = "validate_whitespace_preservation" -> validate_whitespace_preservation(d)
      [] name = "validate_deletions" -> validate_deletions(d)
      [] name = "validate_insertions" -> validate_insertions(d)
      [] OTHER -> o[name]

\* DOCXSchemaValidator.validate(): the checks it ran, whether it compared
\* the paragraph counts, and what it returned
schema_validate(d, o) ==
    IF ~check(d, o, "validate_xml")
    THEN [ran |-> <<"validate_xml">>, counted |-> FALSE, result |-> FALSE]
    ELSE [ran |-> Battery, counted |-> TRUE,
          result |-> \A i \in 2..Len(Battery) : check(d, o, Battery[i])]
-----------------------------------------------------------------------------
(* Document: directories and the staging of a session.  A directory is the *)
(* record of the parts of an unpacked package; pkg holds what the session  *)
(* keeps beside the comment parts: whether the script still holds the      *)
(* Document (live), whether the script goes on after an error (catches),   *)
(* whether the staging directory with the packed baseline exists           *)
(* (temp_dir), the comment parts that exist in the working copy (files),   *)
(* the editors of the relationships, content types and settings (rels,     *)
(* types, rsids), the caller's directory (original) and the directory of   *)
(* save(destination) (out).                                                *)

\* a directory that does not exist
NoDir == [exists |-> FALSE]

\* settings.xml without a w:rsids section
NoRsids == [exists |-> FALSE, root |-> "", vals |-> <<>>]

\* the relationships and overrides of a package without comments
BaseRels == <<[id |-> 1, target |-> "styles.xml"], [id |-> 2, target |-> "settings.xml"]>>

BaseTypes == <<"/word/document.xml", "/word/settings.xml">>

\* a package without comment parts whose word/document.xml is document
PlainDir(document) ==
    [exists |-> TRUE, document |-> document, settings |-> TRUE,
     comments |-> <<>>, commentsExtended |-> <<>>, commentsIds |-> <<>>,
     commentsExtensible |-> <<>>, files |-> {},
     rels |-> BaseRels, types |-> BaseTypes, rsids |-> NoRsids]

\* what Document.__init__ leaves beside the comment parts for directory D;
\* disk is word/document.xml as the file of the working copy holds it (the
\* editors keep their trees in memory and write them on save())
Staged(D, catches) ==
    [live |-> TRUE, catches |-> catches, temp_dir |-> TRUE, files |-> D.files,
     rels |-> add_relationship_for_people(D.rels),
     types |-> add_content_type_for_people(D.types),
     rsids |-> update_settings(D.rsids, Rsid),
     original |-> D, out |-> NoDir, opened |-> 1, disk |-> D.document]
-----------------------------------------------------------------------------
(* The documents and fragments the sessions are run on *)

Other == "Other"

Tracked(id, who) == ("w:id" :> id) @@ ("w:author" :> who) @@ ("w:date" :> "T_OLD")

\* a numbered-list paragraph of two plain runs: one formatted, with a
\* session token; one without token whose text starts with a blank
DocPlain == <<
    Node("w:body", NoAttrs, <<>>, <<2>>),
    Node("w:p", NoAttrs, <<>>, <<3, 5, 9>>),
    Node("w:pPr", NoAttrs, <<>>, <<4>>),
    Node("w:numPr", NoAttrs, <<>>, <<>>),
    Node("w:r", "w:rsidR" :> "R_OLD", <<>>, <<6, 8>>),
    Node("w:rPr", NoAttrs, <<>>, <<7>>),
    Node("w:b", NoAttrs, <<>>, <<>>),
    Node("w:t", NoAttrs, <<"a">>, <<>>),
    Node("w:r", NoAttrs, <<>>, <<10>>),
    Node("w:t", NoAttrs, <<" ", "b">>, <<>>) >>

\* a paragraph with an insertion and a deletion of another author and a
\* plain run
DocTracked == <<
    Node("w:body", NoAttrs, <<>>, <<2>>),
    Node("w:p", NoAttrs, <<>>, <<3, 6, 9>>),
    Node("w:ins", Tracked("1", Other), <<>>, <<4>>),
    Node("w:r", "w:rsidR" :> "R_OLD", <<>>, <<5>>),
    Node("w:t", NoAttrs, <<"a">>, <<>>),
    Node("w:del", Tracked("02", Other), <<>>, <<7>>),
    Node("w:r", "w:rsidDel" :> "R_OLD", <<>>, <<8>>),
    Node("w:delText", "xml:space" :> "preserve", <<"b", " ">>, <<>>),
    Node("w:r", NoAttrs, <<>>, <<10>>),
    Node("w:t", NoAttrs, <<"c">>, <<>>) >>

\* a paragraph with another author's insertion that a third author deleted,
\* and an insertion that "Claude" made in an earlier session
DocNested == <<
    Node("w:body", NoAttrs, <<>>, <<2>>),
    Node("w:p", NoAttrs, <<>>, <<3, 7>>),
    Node("w:ins", Tracked("3", Other), <<>>, <<4>>),
    Node("w:del", Tracked("x9", "Third"), <<>>, <<5>>),
    Node("w:r", "w:rsidDel" :> "R_OLD", <<>>, <<6>>),
    Node("w:delText", NoAttrs, <<"c">>, <<>>),
    Node("w:ins", Tracked("5", "Claude"), <<>>, <<8>>),
    Node("w:r", "w:rsidR" :> "R_OLD", <<>>, <<9>>),
    Node("w:t", NoAttrs, <<"d">>, <<>>) >>

\* a paragraph whose only run, deleted by another author, anchors a text box;
\* the text of the box had been deleted before
DocTextbox == <<
    Node("w:body", NoAttrs, <<>>, <<2>>),
    Node("w:p", NoAttrs, <<>>, <<3>>),
    Node("w:del", Tracked("7", Other), <<>>, <<4>>),
    Node("w:r", "w:rsidDel" :> "R_OLD", <<>>, <<5>>),
    Node("w:txbxContent", NoAttrs, <<>>, <<6>>),
    Node("w:p", ("w14:paraId" :> "0000000C") @@ ("w14:textId" :> "0000000D"), <<>>, <<7>>),
    Node("w:del", Tracked("8", Other), <<>>, <<8>>),
    Node("w:r", "w:rsidDel" :> "R_OLD", <<>>, <<9>>),
    Node("w:delText", NoAttrs, <<"e">>, <<>>) >>

Docs == {DocPlain, DocTracked, DocNested, DocTextbox}

Authors == {"Claude", "Bob"}

\* <w:ins><w:r><w:t>n</w:t></w:r></w:ins><w:del><w:r><w:delText>o </w:delText></w:r></w:del>
FragChanges == [nodes |-> <<
    Node("w:ins", NoAttrs, <<>>, <<2>>),
    Node("w:r", NoAttrs, <<>>, <<3>>),
    Node("w:t", NoAttrs, <<"n">>, <<>>),
    Node("w:del", NoAttrs, <<>>, <<5>>),
    Node("w:r", NoAttrs, <<>>, <<6>>),
    Node("w:delText", NoAttrs, <<"o", " ">>, <<>>) >>,
    roots |-> <<1, 4>>]

\* <w:r><w:t>u </w:t></w:r>: text that is not tracked
FragRun == [nodes |-> <<
    Node("w:r", NoAttrs, <<>>, <<2>>),
    Node("w:t", NoAttrs, <<"u", " ">>, <<>>) >>,
    roots |-> <<1>>]

\* <w:p><w:r><w:t>New</w:t></w:r></w:p>
FragNewParagraph == [nodes |-> <<
    Node("w:p", NoAttrs, <<>>, <<2>>),
    Node("w:r", NoAttrs, <<>>, <<3>>),
    Node("w:t", NoAttrs, <<"N", "e", "w">>, <<>>) >>,
    roots |-> <<1>>]

\* the values _generate_hex_id can return
HexIds == {"0000000A", "0000000B"}

\* the elements a caller of the revision operations passes
Targets(d) == {n \in Attached(d) : d[n].tag \in {"w:body", "w:p", "w:r", "w:ins", "w:del"}}

\* run-level content: the children of paragraphs, insertions and deletions
RunLevel(d) == {n \in Attached(d) : /\ d[n].tag \in {"w:r", "w:ins", "w:del"}
                                    /\ HasParent(d, n)
                                    /\ d[Parent(d, n)].tag \in {"w:p", "w:ins", "w:del"}}

Paragraphs(d) == {n \in Attached(d) : d[n].tag = "w:p"}

-----------------------------------------------------------------------------
(* The session *)

\* the parts and the fields of the session, with d for word/document.xml
Snapshot(d) ==
    [dom |-> d, comments_exists |-> comments_exists, comments |-> comments,
     commentsExtended |-> commentsExtended, commentsIds |-> commentsIds,
     commentsExtensible |-> commentsExtensible,
     existing_comments |-> existing_comments, next_comment_id |-> next_comment_id,
     pkg |-> pkg]

\* a call of the API: its name and argument, whether it returned (for
\* validate: whether it passed), what it returned and the state it left
Call(op, arg, ok, ret, st) == [op |-> op, arg |-> arg, ok |-> ok, ret |-> ret, st |-> st]

CommentVars == <<comments_exists, comments, commentsExtended, commentsIds,
                 commentsExtensible, existing_comments, next_comment_id>>

\* a package without comment parts
NoComments ==
    /\ comments_exists = FALSE
    /\ comments = <<>>
    /\ commentsExtended = <<>>
    /\ commentsIds = <<>>
    /\ commentsExtensible = <<>>
    /\ existing_comments = load_existing_comments(comments_exists, comments)
    /\ next_comment_id = get_next_comment_id(comments_exists, comments)

\* the last call
Last == hist[Len(hist)]

\* the script goes on: it holds a Document, and unless it catches errors a
\* call that raised or a validation ends it; the model follows it for MaxOps
\* calls and while the document has created at most MaxNodes elements
CanCall ==
    /\ Len(hist) <= MaxOps
    /\ Len(dom) <= MaxNodes
    /\ pkg.live
    /\ hist[1].ok
    /\ pkg.catches \/ (Last.ok /\ Last.op # "validate")

\* a call on the document editor that leaves the result r = [ok, d, ret]
EditorCall(op, arg, r) ==
    /\ dom' = r.d
    /\ hist' = Append(hist, Call(op, arg, r.ok, r.ret, Snapshot(r.d)))
    /\ UNCHANGED <<baseline, author, CommentVars, pkg, prs>>

SuggestDeletion(n) ==
    /\ CanCall
    /\ \E r \in {suggest_deletion(dom, n)} : EditorCall("suggest_deletion", n, r)

RevertInsertion(n) ==
    /\ CanCall
    /\ \E r \in {revert_insertion(dom, n)} : EditorCall("revert_insertion", n, r)

RevertDeletion(n) ==
    /\ CanCall
    /\ \E r \in {revert_deletion(dom, n)} : EditorCall("revert_deletion", n, r)

Returned(r) == [ok |-> TRUE, d |-> r.d, ret |-> r.nodes]

InsertAfter(n) ==
    /\ CanCall
    /\ \E r \in {insert_after(dom, n, FragChanges, <<>>)} : EditorCall("insert_after", n, Returned(r))

InsertBefore(n) ==
    /\ CanCall
    /\ \E r \in {insert_before(dom, n, FragChanges, <<>>)} : EditorCall("insert_before", n, Returned(r))

AppendTo(n) ==
    /\ CanCall
    /\ \E r \in {append_to(dom, n, FragChanges, <<>>)} : EditorCall("append_to", n, Returned(r))

ReplaceNode(n) ==
    /\ CanCall
    /\ \E r \in {replace_node(dom, n, FragChanges, <<>>)} : EditorCall("replace_node", n, Returned(r))

\* insert_after(p, suggest_paragraph(...)): a new paragraph as an insertion
InsertParagraph(n, hs) ==
    /\ CanCall
    /\ \E r \in {insert_after(dom, n, suggest_paragraph(FragNewParagraph), hs)} :
          EditorCall("insert_paragraph", n, Returned(r))

\* insert_after(run, "<w:r>...</w:r>"): text that no tracked change wraps
InsertUntracked(n) ==
    /\ CanCall
    /\ \E r \in {insert_after(dom, n, FragRun, <<>>)} :
          EditorCall("insert_untracked", n, Returned(r))

\* RedliningValidator(unpacked_path, original_docx).validate(), as
\* Document.validate() runs it on the saved tree
Validate ==
    /\ CanCall
    /\ \E passed \in {redlining_validate(dom, baseline)} :
          hist' = Append(hist, Call("validate", 0, passed, <<>>, Snapshot(dom)))
    /\ UNCHANGED <<dom, baseline, author, CommentVars, pkg, prs>>

\* Document.__init__ with the default author on a package without comments
InitRev ==
    /\ dom \in Docs
    /\ baseline = dom
    /\ author = "Claude"
    /\ NoComments
    /\ pkg = Staged(PlainDir(dom), FALSE)
    /\ prs = NoPresentation
    /\ hist = <<Call("init", 0, TRUE, <<>>, Snapshot(dom))>>

\* the revision operations
NextRev ==
    \/ \E n \in Targets(dom) : SuggestDeletion(n)
    \/ \E n \in Targets(dom) : RevertInsertion(n)
    \/ \E n \in Targets(dom) : RevertDeletion(n)

SpecRev == InitRev /\ [][NextRev]_vars

\* the revision operations and the editing primitives of DocxXMLEditor
NextEdit ==
    \/ \E n \in Targets(dom) : SuggestDeletion(n)
    \/ \E n \in Targets(dom) : RevertInsertion(n)
    \/ \E n \in Targets(dom) : RevertDeletion(n)
    \/ \E n \in RunLevel(dom) : InsertAfter(n)
    \/ \E n \in RunLevel(dom) : InsertBefore(n)
    \/ \E n \in Paragraphs(dom) : AppendTo(n)
    \/ \E n \in RunLevel(dom) : ReplaceNode(n)

SpecEdit == InitRev /\ [][NextEdit]_vars

\* Document.__init__ with an author the caller chooses
InitRedline ==
    /\ dom \in Docs
    /\ baseline = dom
    /\ author \in Authors
    /\ NoComments
    /\ pkg = Staged(PlainDir(dom), FALSE)
    /\ prs = NoPresentation
    /\ hist = <<Call("init", 0, TRUE, <<>>, Snapshot(dom))>>

\* a session of edits, tracked or not, that ends with Document.validate()
NextRedline ==
    \/ \E n \in Targets(dom) : SuggestDeletion(n)
    \/ \E n \in Targets(dom) : RevertInsertion(n)
    \/ \E n \in Targets(dom) : RevertDeletion(n)
    \/ \E n \in Paragraphs(dom), hs \in {<<a, b>> : a, b \in HexIds} : InsertParagraph(n, hs)
    \/ \E n \in RunLevel(dom) : InsertUntracked(n)
    \/ Validate

SpecRedline == InitRedline /\ [][NextRedline]_vars

-----------------------------------------------------------------------------
(* Document: the comment subsystem.  The four comment parts are the         *)
(* sequences of the records their editors append.                           *)

\* _comment_range_start_xml
comment_range_start_xml(comment_id) == [nodes |-> <<
    Node("w:commentRangeStart", "w:id" :> StrOfInt(comment_id), <<>>, <<>>) >>,
    roots |-> <<1>>]

\* _comment_range_end_xml: the end of the range and the reference run
comment_range_end_xml(comment_id) == [nodes |-> <<
    Node("w:commentRangeEnd", "w:id" :> StrOfInt(comment_id), <<>>, <<>>),
    Node("w:r", NoAttrs, <<>>, <<3, 5>>),
    Node("w:rPr", NoAttrs, <<>>, <<4>>),
    Node("w:rStyle", "w:val" :> "CommentReference", <<>>, <<>>),
    Node("w:commentReference", "w:id" :> StrOfInt(comment_id), <<>>, <<>>) >>,
    roots |-> <<1, 2>>]

\* '<w:commentRangeEnd w:id="{comment_id}"/>'
comment_range_end_only_xml(comment_id) == [nodes |-> <<
    Node("w:commentRangeEnd", "w:id" :> StrOfInt(comment_id), <<>>, <<>>) >>,
    roots |-> <<1>>]

\* _comment_ref_run_xml
comment_ref_run_xml(comment_id) == [nodes |-> <<
    Node("w:r", NoAttrs, <<>>, <<2, 4>>),
    Node("w:rPr", NoAttrs, <<>>, <<3>>),
    Node("w:rStyle", "w:val" :> "CommentReference", <<>>, <<>>),
    Node("w:commentReference", "w:id" :> StrOfInt(comment_id), <<>>, <<>>) >>,
    roots |-> <<1>>]

\* the elements XMLEditor.get_node(tag, attrs={"w:id": id}) can match
MatchingNodes(d, tag, id) ==
    {n \in Attached(d) : d[n].tag = tag /\ GetAttr(d, n, "w:id") = id}

\* XMLEditor.get_node: the one element that matches (it raises unless
\* exactly one does)
get_node(d, tag, id) == CHOOSE n \in MatchingNodes(d, tag, id) : TRUE

\* the records the four _add_to_* methods append, and the bookkeeping at the
\* end of add_comment and reply_to_comment
AddRecords(comment_id, para_id, durable_id, parent_para_id) ==
    /\ comments_exists' = TRUE
    /\ comments' = Append(comments, [id |-> StrOfInt(comment_id), para_id |-> para_id])
    /\ commentsExtended' = Append(commentsExtended, [para_id |-> para_id, parent |-> parent_para_id])
    /\ commentsIds' = Append(commentsIds, [para_id |-> para_id, durable_id |-> durable_id])
    /\ commentsExtensible' = Append(commentsExtensible, [durable_id |-> durable_id])
    /\ existing_comments' = (comment_id :> para_id) @@ existing_comments
    /\ next_comment_id' = next_comment_id + 1
    /\ pkg' = [pkg EXCEPT !.files = @ \cup Range(CommentParts)]

\* the state a call leaves
SnapshotNext ==
    [dom |-> dom', comments_exists |-> comments_exists', comments |-> comments',
     commentsExtended |-> commentsExtended', commentsIds |-> commentsIds',
     commentsExtensible |-> commentsExtensible',
     existing_comments |-> existing_comments', next_comment_id |-> next_comment_id',
     pkg |-> pkg']

\* the anchors of add_comment: the start of the range before start; the end
\* and the reference run as last children of a paragraph, or after end
add_comment_anchors(d, start, end, comment_id) ==
    Let(insert_before(d, start, comment_range_start_xml(comment_id), <<>>).d, LAMBDA d1 :
        IF d1[end].tag = "w:p"
        THEN append_to(d1, end, comment_range_end_xml(comment_id), <<>>).d
        ELSE insert_after(d1, end, comment_range_end_xml(comment_id), <<>>).d)

\* whether the second anchor of add_comment raises: XMLEditor.insert_after
\* puts the new nodes into the parent element of end, and the document
\* element (or a node that was taken out of the tree) has none
end_fails(d, end) == d[end].tag # "w:p" /\ ~HasParent(d, end)

\* Document.add_comment(start, end, text); hs = <<para_id, durable_id>>, the
\* two values _generate_hex_id returns
AddComment(start, end, hs) ==
    /\ CanCall
    /\ IF end_fails(dom, end)
       THEN /\ dom' = insert_before(dom, start, comment_range_start_xml(next_comment_id),
                                    <<>>).d
            /\ hist' = Append(hist, Call("add_comment", <<start, end>>, FALSE, <<>>,
                                         Snapshot(dom')))
            /\ UNCHANGED <<baseline, author, CommentVars, pkg, prs>>
       ELSE /\ dom' = add_comment_anchors(dom, start, end, next_comment_id)
            /\ AddRecords(next_comment_id, hs[1], hs[2], "")
            /\ hist' = Append(hist, Call("add_comment", <<start, end>>, TRUE,
                                         <<next_comment_id>>, SnapshotNext))
            /\ UNCHANGED <<baseline, author, prs>>

\* the anchors of reply_to_comment, parent_ref_run being
\* parent_ref_elem.parentNode
reply_anchors(d, parent_start_elem, parent_ref_run, comment_id) ==
    Let(insert_after(d, parent_start_elem, comment_range_start_xml(comment_id), <<>>).d,
        LAMBDA d1 :
    Let(insert_after(d1, parent_ref_run, comment_range_end_only_xml(comment_id), <<>>).d,
        LAMBDA d2 :
        insert_after(d2, parent_ref_run, comment_ref_run_xml(comment_id), <<>>).d))

\* a call that counts the comment before it raises
RaisedAfterCount(op, arg) ==
    /\ hist' = Append(hist, Call(op, arg, FALSE, <<>>, Snapshot(dom)))
    /\ next_comment_id' = next_comment_id + 1
    /\ UNCHANGED <<dom, baseline, author, comments_exists, comments, commentsExtended,
                   commentsIds, commentsExtensible, existing_comments, pkg, prs>>

\* a call that raised: nothing but the record of the call changes
Raised(op, arg) ==
    /\ hist' = Append(hist, Call(op, arg, FALSE, <<>>, Snapshot(dom)))
    /\ UNCHANGED <<dom, baseline, author, CommentVars, pkg, prs>>

\* whether get_node finds the anchors of the parent comment
ParentAnchored(d, parent_comment_id) ==
    /\ Cardinality(MatchingNodes(d, "w:commentRangeStart", StrOfInt(parent_comment_id))) = 1
    /\ Cardinality(MatchingNodes(d, "w:commentReference", StrOfInt(parent_comment_id))) = 1

\* Document.reply_to_comment(parent_comment_id, text)
ReplyToComment(parent_comment_id, hs) ==
    /\ CanCall
    /\ IF parent_comment_id \notin DOMAIN existing_comments
          \/ ~ParentAnchored(dom, parent_comment_id)
       THEN Raised("reply_to_comment", parent_comment_id)
       ELSE /\ dom' = reply_anchors(dom,
                         get_node(dom, "w:commentRangeStart", StrOfInt(parent_comment_id)),
                         Parent(dom, get_node(dom, "w:commentReference",
                                              StrOfInt(parent_comment_id))),
                         next_comment_id)
            /\ AddRecords(next_comment_id, hs[1], hs[2], existing_comments[parent_comment_id])
            /\ hist' = Append(hist, Call("reply_to_comment", parent_comment_id, TRUE,
                                         <<next_comment_id>>, SnapshotNext))
            /\ UNCHANGED <<baseline, author, prs>>

\* a paragraph of one run, without comments
DocUncommented == <<
    Node("w:body", NoAttrs, <<>>, <<2>>),
    Node("w:p", NoAttrs, <<>>, <<3>>),
    Node("w:r", NoAttrs, <<>>, <<4>>),
    Node("w:t", NoAttrs, <<"a">>, <<>>) >>

\* the same paragraph with the anchors of comment 3
DocCommented == <<
    Node("w:body", NoAttrs, <<>>, <<2>>),
    Node("w:p", NoAttrs, <<>>, <<3, 4, 6, 7>>),
    Node("w:commentRangeStart", "w:id" :> "3", <<>>, <<>>),
    Node("w:r", NoAttrs, <<>>, <<5>>),
    Node("w:t", NoAttrs, <<"a">>, <<>>),
    Node("w:commentRangeEnd", "w:id" :> "3", <<>>, <<>>),
    Node("w:r", NoAttrs, <<>>, <<8, 10>>),
    Node("w:rPr", NoAttrs, <<>>, <<9>>),
    Node("w:rStyle", "w:val" :> "CommentReference", <<>>, <<>>),
    Node("w:commentReference", "w:id" :> "3", <<>>, <<>>) >>

\* the comment parts of a package that holds comment 3
OneComment ==
    /\ comments_exists = TRUE
    /\ comments = <<[id |-> "3", para_id |-> "0000000C"]>>
    /\ commentsExtended = <<[para_id |-> "0000000C", parent |-> ""]>>
    /\ commentsIds = <<[para_id |-> "0000000C", durable_id |-> "0000000D"]>>
    /\ commentsExtensible = <<[durable_id |-> "0000000D"]>>

\* the package that holds comment 3: the four comment parts, declared, and
\* a w:rsids section of an earlier session
CommentedDir ==
    [exists |-> TRUE, document |-> DocCommented, settings |-> TRUE,
     comments |-> <<[id |-> "3", para_id |-> "0000000C"]>>,
     commentsExtended |-> <<[para_id |-> "0000000C", parent |-> ""]>>,
     commentsIds |-> <<[para_id |-> "0000000C", durable_id |-> "0000000D"]>>,
     commentsExtensible |-> <<[durable_id |-> "0000000D"]>>,
     files |-> Range(CommentParts),
     rels |-> BaseRels \o comment_rels(3),
     types |-> BaseTypes \o CommentPartNames,
     rsids |-> [exists |-> TRUE, root |-> "R_OLD", vals |-> <<"R_OLD">>]]

\* the parent ids a caller of reply_to_comment passes: 0..MaxParent
MaxParent == 5

\* the elements a caller of add_comment passes: paragraphs and runs of text
CommentTargets(d) ==
    {n \in Attached(d) : \/ d[n].tag = "w:p"
                         \/ d[n].tag = "w:r" /\ \E k \in Range(d[n].kids) : d[k].tag = "w:t"}

\* the pairs of values two calls of _generate_hex_id can return
HexPairs == {<<a, b>> : a, b \in HexIds}

\* Document.__init__ on a package without comments or with one comment
InitCom ==
    /\ \/ dom = DocUncommented /\ NoComments /\ pkg = Staged(PlainDir(dom), FALSE)
       \/ /\ dom = DocCommented
          /\ OneComment
          /\ pkg = Staged(CommentedDir, FALSE)
          /\ existing_comments = load_existing_comments(comments_exists, comments)
          /\ next_comment_id = get_next_comment_id(comments_exists, comments)
    /\ baseline = dom
    /\ prs = NoPresentation
    /\ author = "Claude"
    /\ hist = <<Call("init", 0, TRUE, <<>>, Snapshot(dom))>>

\* the comment operations
NextCom ==
    \/ \E start, end \in CommentTargets(dom), hs \in HexPairs : AddComment(start, end, hs)
    \/ \E parent_comment_id \in 0..MaxParent, hs \in HexPairs :
          ReplyToComment(parent_comment_id, hs)

SpecCom == InitCom /\ [][NextCom]_vars

-----------------------------------------------------------------------------
(* Properties of the tracked-change editor *)

\* the tree before the last call
Before == hist[Len(hist) - 1].st.dom

\* the w:id values of the w:ins and w:del elements of d that carry one
ChangeIds(d) == {GetAttr(d, n, "w:id") : n \in {m \in ChangeElements(d) : HasAttr(d, m, "w:id")}}

\* the w:ins and w:del elements whose w:id the last call allocated: elements
\* with a w:id that no element carried before the call
Allocated ==
    {n \in ChangeElements(dom) : /\ HasAttr(dom, n, "w:id")
                                 /\ GetAttr(dom, n, "w:id") \notin ChangeIds(Before)}

\* no two w:ins/w:del elements of d carry the same w:id
DistinctChangeIds(d) ==
    \A m, n \in ChangeElements(d) :
        (m # n /\ HasAttr(d, m, "w:id") /\ HasAttr(d, n, "w:id"))
            => GetAttr(d, m, "w:id") # GetAttr(d, n, "w:id")

\* C1: from a part whose w:ins/w:del elements have pairwise distinct w:id
\* values, after any sequence of primitive and revision calls no two w:ins or
\* w:del elements share a w:id, and every id a call allocates is a
\* non-negative integer greater than every integer id present before
C1_ChangeIdsStayUnique ==
    DistinctChangeIds(baseline) =>
        /\ DistinctChangeIds(dom)
        /\ Len(hist) > 1 =>
              \A n \in Allocated :
                  /\ IsInt(GetAttr(dom, n, "w:id"))
                  /\ IntOfStr(GetAttr(dom, n, "w:id")) >= 0
                  /\ \A v \in ChangeIds(Before) :
                        IsInt(v) => IntOfStr(v) < IntOfStr(GetAttr(dom, n, "w:id"))

\* no w:t element of d is a descendant of a w:del element
NoTextUnderDel(d) ==
    \A n \in Attached(d) : d[n].tag = "w:t" => ~is_inside_deletion(d, n)

\* C2: from a part in which no w:t is below a w:del, every state reachable by
\* suggest_deletion, revert_insertion and revert_deletion calls has no w:t
\* below a w:del
C2_NoTextUnderDeletion == NoTextUnderDel(baseline) => NoTextUnderDel(dom)

\* the elements below run r of d in document order: tag, attributes, text
RunContent(d, r) ==
    Tup([i \in 1..Len(Descendants(d, r)) |->
            [tag |-> d[Descendants(d, r)[i]].tag,
             attrs |-> d[Descendants(d, r)[i]].attrs,
             text |-> d[Descendants(d, r)[i]].text]])

\* the runs a call of suggest_deletion on elem deletes
RunsOf(d, elem) ==
    IF d[elem].tag = "w:r" THEN <<elem>> ELSE getElementsByTagName(d, elem, "w:r")

\* the w:del that suggest_deletion on elem left: the wrapper it returns for a
\* run, the last child of the paragraph otherwise
DeletionOf(c) ==
    IF c.st.dom[c.arg].tag = "w:p"
    THEN c.st.dom[c.arg].kids[Len(c.st.dom[c.arg].kids)]
    ELSE c.ret[1]

\* the last two calls were suggest_deletion on a plain run or a paragraph of
\* plain runs and revert_deletion on the deletion that it left
RoundTrip ==
    /\ Len(hist) >= 3
    /\ hist[Len(hist) - 1].op = "suggest_deletion" /\ hist[Len(hist) - 1].ok
    /\ Last.op = "revert_deletion" /\ Last.ok
    /\ Last.arg = DeletionOf(hist[Len(hist) - 1])

\* the tree before the first call of a round trip
Original == hist[Len(hist) - 2].st.dom

\* what the round trip left of original run k: the k-th run of the w:ins
\* that follows the deletion has the content of the original run, and its
\* w:rsidR when the original run had one
Restored(k) ==
    /\ RunContent(dom, dom[Last.ret[2]].kids[k])
         = RunContent(Original, RunsOf(Original, hist[Len(hist) - 1].arg)[k])
    /\ dom[dom[Last.ret[2]].kids[k]].tag = "w:r"
    /\ HasAttr(Original, RunsOf(Original, hist[Len(hist) - 1].arg)[k], "w:rsidR")
          => GetAttr(dom, dom[Last.ret[2]].kids[k], "w:rsidR")
               = GetAttr(Original, RunsOf(Original, hist[Len(hist) - 1].arg)[k], "w:rsidR")

\* C6: suggest_deletion on a plain run or a paragraph of plain runs, then
\* revert_deletion on the resulting deletion, leaves right after the w:del a
\* w:ins whose runs have the text leaves (w:t, values, order, xml:space) and
\* the run properties of the original runs, with w:rsidR back at its value
C6_RoundTripRestoresRuns ==
    RoundTrip =>
        /\ Len(Last.ret) = 2
        /\ dom[Last.ret[2]].tag = "w:ins"
        /\ HasParent(dom, Last.arg)
        /\ \E i \in 1..Len(dom[Parent(dom, Last.arg)].kids) - 1 :
              /\ dom[Parent(dom, Last.arg)].kids[i] = Last.arg
              /\ dom[Parent(dom, Last.arg)].kids[i + 1] = Last.ret[2]
        /\ Len(dom[Last.ret[2]].kids) = Len(RunsOf(Original, hist[Len(hist) - 1].arg))
        /\ \A k \in 1..Len(dom[Last.ret[2]].kids) : Restored(k)

\* the last call was revert_insertion on a w:ins that had a run
RevertedInsertion ==
    /\ Len(hist) >= 2
    /\ Last.op = "revert_insertion" /\ Last.ok
    /\ Before[Last.arg].tag = "w:ins"
    /\ getElementsByTagName(Before, Last.arg, "w:r") # <<>>

\* the text leaves below n in document order with their content, whatever
\* their kind
Leaves(d, n) ==
    Tup([i \in 1..Len(SelectSeq(Descendants(d, n), LAMBDA x : d[x].tag \in {"w:t", "w:delText"})) |->
        [attrs |-> d[SelectSeq(Descendants(d, n), LAMBDA x : d[x].tag \in {"w:t", "w:delText"})[i]].attrs,
         text |-> d[SelectSeq(Descendants(d, n), LAMBDA x : d[x].tag \in {"w:t", "w:delText"})[i]].text]])

\* C7: after revert_insertion on a w:ins with a run the insertion holds no
\* w:t; each former w:t is a w:delText with the same content and attributes;
\* the former children are, in their order, the children of one new w:del,
\* which is the only child of the insertion
C7_RevertInsertionShape ==
    RevertedInsertion =>
        /\ getElementsByTagName(dom, Last.arg, "w:t") = <<>>
        /\ Leaves(dom, Last.arg) = Leaves(Before, Last.arg)
        /\ Len(dom[Last.arg].kids) = 1
        /\ dom[dom[Last.arg].kids[1]].tag = "w:del"
        /\ dom[Last.arg].kids[1] > Len(Before)
        /\ Len(dom[dom[Last.arg].kids[1]].kids) = Len(Before[Last.arg].kids)
        /\ \A k \in 1..Len(Before[Last.arg].kids) :
              \/ dom[dom[Last.arg].kids[1]].kids[k] = Before[Last.arg].kids[k]
              \/ /\ Before[Before[Last.arg].kids[k]].tag = "w:t"
                 /\ dom[dom[dom[Last.arg].kids[1]].kids[k]].tag = "w:delText"

\* a state C7 speaks about: an insertion with text was reverted
C7_Witness ==
    /\ RevertedInsertion
    /\ getElementsByTagName(Before, Last.arg, "w:t") # <<>>

-----------------------------------------------------------------------------
(* Properties of the redlining validator.  The reading of a document        *)
(* without the tracked changes of one author is stated on the tree as it    *)
(* is: what is below a w:ins of that author is gone, a w:delText below a    *)
(* w:del of that author is text again.                                      *)

IsChangeBy(d, n, tag, who) == d[n].tag = tag /\ GetAttr(d, n, "w:author") = who

\* x is gone with an insertion of who
Rejected(d, x, who) == \E a \in Ancestors(d, x) \cup {x} : IsChangeBy(d, a, "w:ins", who)

\* x is text once the changes of who are taken back
IsTextWithout(d, x, who) ==
    /\ ~Rejected(d, x, who)
    /\ \/ d[x].tag = "w:t"
       \/ /\ d[x].tag = "w:delText"
          /\ \E a \in Ancestors(d, x) : IsChangeBy(d, a, "w:del", who)

\* the text of paragraph p without the changes of who
TextWithout(d, p, who) ==
    Flatten(Tup([i \in 1..Len(SelectSeq(Descendants(d, p), LAMBDA x : IsTextWithout(d, x, who))) |->
        d[SelectSeq(Descendants(d, p), LAMBDA x : IsTextWithout(d, x, who))[i]].text]))

\* the paragraphs that are left without the changes of who
ParagraphsWithout(d, who) ==
    SelectSeq(Descendants(d, Root), LAMBDA x : d[x].tag = "w:p" /\ ~Rejected(d, x, who))

\* the non-empty paragraph texts of d without the changes of who
TextsWithout(d, who) ==
    SelectSeq(Tup([i \in 1..Len(ParagraphsWithout(d, who)) |->
                     TextWithout(d, ParagraphsWithout(d, who)[i], who)]),
              LAMBDA t : t # <<>>)

\* d holds a tracked change of who
HasChangesBy(d, who) ==
    \E n \in Range(Descendants(d, Root)) :
        IsChangeBy(d, n, "w:ins", who) \/ IsChangeBy(d, n, "w:del", who)

\* the calls that change text through tracked changes only
TrackedOps == {"suggest_deletion", "insert_paragraph", "revert_insertion", "revert_deletion"}

\* the session made tracked changes only and ended with a validation
TrackedSession ==
    /\ Last.op = "validate"
    /\ \A i \in 2..(Len(hist) - 1) : hist[i].op \in TrackedOps

\* C3: a session of the default author whose every text change goes through
\* the tracked-change operations passes the redlining validator
C3_TrackedSessionPasses ==
    (TrackedSession /\ author = ValidatorAuthor) => Last.ok

\* C4 as stated: the validator passes only if the edited part without the
\* session author's tracked changes has the paragraph texts of the baseline
C4_PassOnlyIfTextKept ==
    (Last.op = "validate" /\ Last.ok)
        => TextsWithout(dom, author) = TextsWithout(baseline, author)

\* C4: the validator fails exactly when the edited part holds a w:ins or
\* w:del whose author is "Claude" and the edited part and the baseline,
\* both without the changes of "Claude", differ in their non-empty
\* paragraph texts joined by newlines; an edited part without such a change
\* passes whatever its text
C4_FailsIffClaudeChangeAndTextDiffers ==
    Last.op = "validate" =>
        (Last.ok <=> (\/ ~HasChangesBy(dom, ValidatorAuthor)
                      \/ join(TextsWithout(dom, ValidatorAuthor))
                           = join(TextsWithout(baseline, ValidatorAuthor))))

\* a validation that fails: a change of "Claude" beside text that no tracked
\* change wraps
C4_Witness ==
    /\ Last.op = "validate"
    /\ ~Last.ok
    /\ HasChangesBy(dom, ValidatorAuthor)
    /\ \E i \in 2..(Len(hist) - 1) : hist[i].op = "insert_untracked"

\* C5: the validator strips, and passes trivially in the absence of, the
\* tracked changes of the session's author: its verdict is that of the
\* comparison without the changes of Document.author
C5_ValidatorUsesSessionAuthor ==
    Last.op = "validate" =>
        (Last.ok <=> (\/ ~HasChangesBy(dom, author)
                      \/ TextsWithout(dom, author) = TextsWithout(baseline, author)))

-----------------------------------------------------------------------------
(* Properties of the comment subsystem *)

\* the state before the last call
Prev == hist[Len(hist) - 1].st

\* the anchors of kind tag that document.xml holds for the comment id
Anchors(tag, id) == {n \in Attached(dom) : dom[n].tag = tag /\ GetAttr(dom, n, "w:id") = id}

\* comment i of comments.xml has one record in each of the three other
\* parts, correlated through its paragraph-id and its durable-id, and one
\* anchor of each kind in document.xml
Correlated(i) ==
    /\ Cardinality({j \in 1..Len(commentsExtended) :
                        commentsExtended[j].para_id = comments[i].para_id}) = 1
    /\ Cardinality({j \in 1..Len(commentsIds) :
                        commentsIds[j].para_id = comments[i].para_id}) = 1
    /\ \A j \in 1..Len(commentsIds) :
          commentsIds[j].para_id = comments[i].para_id =>
              Cardinality({k \in 1..Len(commentsExtensible) :
                  commentsExtensible[k].durable_id = commentsIds[j].durable_id}) = 1
    /\ Cardinality(Anchors("w:commentRangeStart", comments[i].id)) = 1
    /\ Cardinality(Anchors("w:commentRangeEnd", comments[i].id)) = 1
    /\ Cardinality(Anchors("w:commentReference", comments[i].id)) = 1

\* C8: from consistent or absent comment records, after any sequence of
\* successful add_comment and reply_to_comment calls every comment of
\* comments.xml has exactly one commentEx, commentId and commentExtensible
\* record and exactly one anchor triple in document.xml, and distinct
\* comments have distinct paragraph-ids and durable-ids
C8_CommentRecordsConsistent ==
    /\ \A i \in 1..Len(comments) : Correlated(i)
    /\ \A i, j \in 1..Len(comments) : i # j => comments[i].para_id # comments[j].para_id
    /\ \A i, j \in 1..Len(commentsIds) :
          i # j => commentsIds[i].durable_id # commentsIds[j].durable_id

\* the call at position i of the session returned a comment id
ReturnedId(i) == hist[i].op \in {"add_comment", "reply_to_comment"} /\ hist[i].ok

\* C9: the first id of a session is 0 without comments.xml and one past the
\* largest integer comment id otherwise; a successful add_comment or
\* reply_to_comment returns the counter and increases it by 1, so the ids
\* returned are increasing; the commentEx record of a reply to p has the
\* paragraph-id recorded for comment p as its w15:paraIdParent
C9_SequentialCommentIds ==
    /\ ~hist[1].st.comments_exists => hist[1].st.next_comment_id = 0
    /\ hist[1].st.comments_exists =>
          /\ \A i \in 1..Len(hist[1].st.comments) :
                IsInt(hist[1].st.comments[i].id) =>
                    IntOfStr(hist[1].st.comments[i].id) < hist[1].st.next_comment_id
          /\ \/ hist[1].st.next_comment_id = 0
             \/ \E i \in 1..Len(hist[1].st.comments) :
                   /\ IsInt(hist[1].st.comments[i].id)
                   /\ IntOfStr(hist[1].st.comments[i].id) + 1 = hist[1].st.next_comment_id
    /\ \A i \in 2..Len(hist) :
          ReturnedId(i) =>
              /\ hist[i].ret = <<hist[i - 1].st.next_comment_id>>
              /\ hist[i].st.next_comment_id = hist[i - 1].st.next_comment_id + 1
    /\ \A i, j \in 2..Len(hist) :
          (i < j /\ ReturnedId(i) /\ ReturnedId(j)) => hist[i].ret[1] < hist[j].ret[1]
    /\ \A i \in 2..Len(hist) :
          (ReturnedId(i) /\ hist[i].op = "reply_to_comment") =>
              /\ hist[i].arg \in DOMAIN hist[i - 1].st.existing_comments
              /\ hist[i - 1].st.existing_comments[hist[i].arg]
                   = hist[i].st.commentsExtended[Len(hist[i].st.commentsExtended)].parent

\* a session on a package with comments in which a comment was added and
\* then answered
C9_Witness ==
    /\ hist[1].st.comments_exists
    /\ Len(hist) >= 3
    /\ ReturnedId(Len(hist))
    /\ Last.op = "reply_to_comment"
    /\ hist[Len(hist) - 1].op = "add_comment"
    /\ Last.arg = hist[Len(hist) - 1].ret[1]

\* the last call was reply_to_comment with a parent id that is no known
\* comment
ReplyToUnknown ==
    /\ Len(hist) >= 2
    /\ Last.op = "reply_to_comment"
    /\ Last.arg \notin DOMAIN Prev.existing_comments

\* C10: reply_to_comment with an unknown parent id raises and changes
\* nothing: no anchor in document.xml, no record in the four comment parts,
\* the next comment id and the table of known comments as before
C10_UnknownParentChangesNothing ==
    ReplyToUnknown =>
        /\ ~Last.ok
        /\ Snapshot(dom) = Prev

\* a reply to an unknown parent in a session that has comments
C10_Witness ==
    /\ ReplyToUnknown
    /\ Prev.comments # <<>>

-----------------------------------------------------------------------------
(* Properties of the revision operations: errors and what they keep *)

\* the last call was a revision operation on an element it has no branch for:
\* suggest_deletion on neither a run nor a paragraph, revert_insertion on an
\* element that is no w:ins and holds none, revert_deletion likewise
WrongTarget ==
    /\ Len(hist) >= 2
    /\ \/ /\ Last.op = "suggest_deletion"
          /\ Before[Last.arg].tag \notin {"w:r", "w:p"}
       \/ /\ Last.op = "revert_insertion"
          /\ Before[Last.arg].tag # "w:ins"
          /\ getElementsByTagName(Before, Last.arg, "w:ins") = <<>>
       \/ /\ Last.op = "revert_deletion"
          /\ Before[Last.arg].tag # "w:del"
          /\ getElementsByTagName(Before, Last.arg, "w:del") = <<>>

\* C15: suggest_deletion on an element that is neither run nor paragraph,
\* revert_insertion on an element that is no insertion and contains none and
\* revert_deletion on an element that is no deletion and contains none raise
\* and leave the tree of the part unchanged
C15_WrongTargetRaises == WrongTarget => (~Last.ok /\ dom = Before)

\* each of the three operations was refused on a wrong target
C15_Witness ==
    /\ WrongTarget
    /\ ~Last.ok
    /\ Last.op = "revert_deletion"
    /\ Before[Last.arg].tag = "w:ins"

\* the runs of the insertion n are wrapped in a deletion already: it has
\* runs, and each lies below a w:del that lies below n
RunsAlreadyDeleted(d, n) ==
    /\ getElementsByTagName(d, n, "w:r") # <<>>
    /\ \A r \in Range(getElementsByTagName(d, n, "w:r")) :
          \E a \in Ancestors(d, r) : d[a].tag = "w:del" /\ n \in Ancestors(d, a)

\* the last call asked for markup that its target carries already
AlreadyTracked ==
    /\ Len(hist) >= 2
    /\ \/ /\ Last.op = "suggest_deletion"
          /\ Before[Last.arg].tag = "w:r"
          /\ \/ getElementsByTagName(Before, Last.arg, "w:delText") # <<>>
             \/ is_inside_deletion(Before, Last.arg)
       \/ /\ Last.op = "suggest_deletion"
          /\ Before[Last.arg].tag = "w:p"
          /\ \/ getElementsByTagName(Before, Last.arg, "w:ins") # <<>>
             \/ getElementsByTagName(Before, Last.arg, "w:del") # <<>>
       \/ /\ Last.op = "revert_insertion"
          /\ Before[Last.arg].tag = "w:ins"
          /\ RunsAlreadyDeleted(Before, Last.arg)

\* no w:del of d lies below another w:del
NoNestedDel(d) ==
    \A n \in Attached(d) : d[n].tag = "w:del" => ~is_inside_deletion(d, n)

\* C16: a revision operation on content that already carries the markup it
\* adds raises and leaves the tree unchanged (suggest_deletion on a run with
\* w:delText or inside a w:del, suggest_deletion on a paragraph with a w:ins
\* or w:del, revert_insertion on a w:ins whose runs are inside a w:del), so
\* that no sequence of operations puts a w:del below a w:del
C16_NoSecondLayer ==
    /\ AlreadyTracked => (~Last.ok /\ dom = Before)
    /\ NoNestedDel(baseline) => NoNestedDel(dom)

\* the tracked-change elements of d with what identifies them
ChangeRecord(d, n) ==
    [id |-> GetAttr(d, n, "w:id"), author |-> GetAttr(d, n, "w:author"),
     date |-> GetAttr(d, n, "w:date")]

\* the last call was one of the three revision operations
RevisionCall ==
    /\ Len(hist) >= 2
    /\ Last.op \in {"suggest_deletion", "revert_insertion", "revert_deletion"}

\* C17: every w:ins or w:del of the part before a call of suggest_deletion,
\* revert_insertion or revert_deletion is an element of the part after the
\* call, with the same w:id, w:author and w:date
C17_ChangesAreKept ==
    RevisionCall =>
        \A n \in ChangeElements(Before) :
            /\ n \in ChangeElements(dom)
            /\ ChangeRecord(dom, n) = ChangeRecord(Before, n)

\* a deletion of another author was reverted: the w:del is still there and
\* the part has one more tracked change
C17_Witness ==
    /\ RevisionCall
    /\ Last.op = "revert_deletion" /\ Last.ok
    /\ Before[Last.arg].tag = "w:del"
    /\ Cardinality(ChangeElements(dom)) > Cardinality(ChangeElements(Before))

-----------------------------------------------------------------------------
(* The structural validator on its own: a script that validates a package  *)
(* whose base checks come out as o.                                        *)

\* DOCXSchemaValidator(...).validate() on the working copy
SchemaValidate(o) ==
    /\ CanCall
    /\ \E v \in {schema_validate(dom, o)} :
          hist' = Append(hist, Call("schema_validate", o, v.result, v, Snapshot(dom)))
    /\ UNCHANGED <<dom, baseline, author, CommentVars, pkg, prs>>

NextSchema == \E o \in [BaseChecks -> BOOLEAN] : SchemaValidate(o)

SpecSchema == InitRev /\ [][NextSchema]_vars

\* C12: a call of the structural validator runs every check of the battery
\* and the paragraph-count comparison, whatever the earlier checks returned,
\* and returns True exactly when every check returned True
C12_EveryCheckRuns ==
    Last.op = "schema_validate" =>
        /\ Last.ret.ran = Battery
        /\ Last.ret.counted
        /\ Last.ok <=> \A i \in 1..Len(Battery) : check(dom, Last.arg, Battery[i])

-----------------------------------------------------------------------------
(* A script that opens a package, comments, saves, drops the Document and  *)
(* opens the result again.  The script catches the errors of its calls.    *)

\* the sessions a script opens one after the other
MaxSessions == 2

\* a package of an earlier Word version: comments.xml with comment 3 and
\* its declarations, none of the three newer comment parts; its settings
\* hold the token of the session already
LegacyDir ==
    [exists |-> TRUE, document |-> DocCommented, settings |-> TRUE,
     comments |-> <<[id |-> "3", para_id |-> ""]>>,
     commentsExtended |-> <<>>, commentsIds |-> <<>>, commentsExtensible |-> <<>>,
     files |-> {"comments.xml"},
     rels |-> Append(BaseRels, [id |-> 3, target |-> "comments.xml"]),
     types |-> Append(BaseTypes, "/word/comments.xml"),
     rsids |-> [exists |-> TRUE, root |-> "R_OLD", vals |-> <<"R_OLD", Rsid>>]]

\* a package without word/settings.xml
BrokenDir == [PlainDir(DocUncommented) EXCEPT !.settings = FALSE]

\* the directories a script opens
Dirs == {PlainDir(DocUncommented), CommentedDir, LegacyDir, BrokenDir}

\* the outcomes of the base checks: all pass, or the schema check fails
AllPass == [c \in BaseChecks |-> TRUE]

Outcomes == {AllPass, [AllPass EXCEPT !["validate_against_xsd"] = FALSE]}

\* the directory save(destination) writes to: "original" stands for
\* destination=None
TargetDir(p, destination) == IF destination = "out" THEN p.out ELSE p.original

\* shutil.copytree(unpacked_path, target_path, dirs_exist_ok=True): the
\* parts of the working copy replace those of the target, the other files
\* of the target stay
copytree(target, d, cs, ce, ci, cx, p) ==
    [exists |-> TRUE, document |-> d, settings |-> TRUE,
     comments |-> cs, commentsExtended |-> ce, commentsIds |-> ci,
     commentsExtensible |-> cx,
     files |-> (IF target.exists THEN target.files ELSE {}) \cup p.files,
     rels |-> p.rels, types |-> p.types, rsids |-> p.rsids]

\* a save that copies whatever the validators said
commit_first(p, destination, passed, written) ==
    IF destination = "out" THEN [p EXCEPT !.out = written]
    ELSE [p EXCEPT !.original = written]

\* the end of save(): the copy to the target is reached only if validate()
\* did not raise
commit(p, destination, passed, written) ==
    IF ~passed THEN p
    ELSE IF destination = "out" THEN [p EXCEPT !.out = written]
    ELSE [p EXCEPT !.original = written]

\* a validation against the caller's directory as it is now
validate_against_directory(d, original, o) ==
    schema_validate(d, o).result /\ redlining_validate(d, pkg.original.document)

\* Document.validate(): the structural validator, then the redlining one
document_validate(d, original, o) ==
    schema_validate(d, o).result /\ redlining_validate(d, original)

\* the declarations save() ensures when word/comments.xml exists
ensured(p) ==
    IF "comments.xml" \in p.files
    THEN [p EXCEPT !.rels = ensure_comment_relationships(@),
                   !.types = ensure_comment_content_types(@)]
    ELSE p

\* "for editor in self._editors.values(): editor.save()": the file of the
\* working copy takes the tree d of the document editor
editors_saved(p, d) == [p EXCEPT !.disk = d]

\* Document.save(destination, validate); o: the outcomes of the base checks
Save(destination, validate, o) ==
    /\ CanCall
    /\ \E s \in {editors_saved(ensured(pkg), dom)} :
       \E passed \in {~validate \/ document_validate(s.disk, baseline, o)} :
          /\ pkg' = commit(s, destination, passed,
                           copytree(TargetDir(pkg, destination), s.disk, comments,
                                    commentsExtended, commentsIds, commentsExtensible, s))
          /\ UNCHANGED <<dom, baseline, author, CommentVars, prs>>
          /\ hist' = Append(hist, Call("save", <<destination, validate, o>>, passed, <<>>,
                                       SnapshotNext))

\* the script drops its last reference to the Document, or ends: __del__
\* removes the staging directory if the interpreter runs it now
End ==
    /\ pkg.live
    /\ \E removed \in BOOLEAN : pkg' = [pkg EXCEPT !.live = FALSE, !.temp_dir = ~removed]
    /\ UNCHANGED <<dom, baseline, author, CommentVars, hist, prs>>

\* __del__ runs later, when the collector frees the Document
Finalize ==
    /\ ~pkg.live
    /\ pkg.temp_dir
    /\ pkg' = [pkg EXCEPT !.temp_dir = FALSE]
    /\ UNCHANGED <<dom, baseline, author, CommentVars, hist, prs>>

\* Document.__init__ on D: the first session of a script
InitSession ==
    \E D \in Dirs :
        /\ dom = D.document
        /\ baseline = D.document
        /\ author = "Claude"
        /\ comments_exists = ("comments.xml" \in D.files)
        /\ comments = D.comments
        /\ commentsExtended = D.commentsExtended
        /\ commentsIds = D.commentsIds
        /\ commentsExtensible = D.commentsExtensible
        /\ existing_comments = load_existing_comments(comments_exists, comments)
        /\ next_comment_id = get_next_comment_id(comments_exists, comments)
        /\ IF D.settings
           THEN pkg = Staged(D, TRUE)
           ELSE \E removed \in BOOLEAN :
                   pkg = [Staged(D, TRUE) EXCEPT !.live = FALSE, !.temp_dir = ~removed,
                                                 !.rsids = D.rsids]
        /\ prs = NoPresentation
        /\ hist = <<Call("init", 0, D.settings, <<>>, Snapshot(dom))>>

\* Document.__init__ with the same token on a directory the script saved
\* to, once the script has dropped the Document it had
Reopen(destination) ==
    /\ ~pkg.live
    /\ hist[1].ok
    /\ Len(hist) <= MaxOps
    /\ pkg.opened < MaxSessions
    /\ TargetDir(pkg, destination).exists
    /\ \E D \in {TargetDir(pkg, destination)} :
          /\ dom' = D.document
          /\ baseline' = D.document
          /\ comments_exists' = ("comments.xml" \in D.files)
          /\ comments' = D.comments
          /\ commentsExtended' = D.commentsExtended
          /\ commentsIds' = D.commentsIds
          /\ commentsExtensible' = D.commentsExtensible
          /\ existing_comments' = load_existing_comments(comments_exists', comments')
          /\ next_comment_id' = get_next_comment_id(comments_exists', comments')
          /\ pkg' = [Staged(D, TRUE) EXCEPT !.opened = pkg.opened + 1]
          /\ hist' = Append(hist, Call("init", destination, TRUE, <<>>, SnapshotNext))
    /\ UNCHANGED <<author, prs>>

\* the values _generate_hex_id returns in the sessions of the script
SessionHex == {<<"0000000A", "0000000B">>}

\* the comments the script replies to
SessionParents == {0, 3}

\* the ways the script saves: without validation, or with validation and
\* the base checks coming out as o
SaveModes == {<<FALSE, AllPass>>} \cup {<<TRUE, o>> : o \in Outcomes}

\* the calls of the script
NextSession ==
    \/ \E start \in CommentTargets(dom), end \in CommentTargets(dom) \cup {Root},
          hs \in SessionHex : AddComment(start, end, hs)
    \/ \E parent_comment_id \in SessionParents, hs \in SessionHex :
          ReplyToComment(parent_comment_id, hs)
    \/ \E destination \in {"original", "out"}, m \in SaveModes :
          Save(destination, m[1], m[2])
    \/ End
    \/ Finalize
    \/ \E destination \in {"original", "out"} : Reopen(destination)

SpecSession == InitSession /\ [][NextSession]_vars

-----------------------------------------------------------------------------
(* Saving a session of edits *)

\* edits, tracked or not, and saves
NextSave ==
    \/ \E n \in Targets(dom) : SuggestDeletion(n)
    \/ \E n \in RunLevel(dom) : InsertUntracked(n)
    \/ \E destination \in {"original", "out"}, m \in SaveModes :
          Save(destination, m[1], m[2])

SpecSave == InitRev /\ [][NextSave]_vars

\* C13: save(validate=True) returns normally exactly when the structural
\* and the redlining validator pass, and a save that raised left the
\* caller's directory and the destination as they were before the call
C13_CommitOnlyAfterValidation ==
    (Last.op = "save" /\ Last.arg[2]) =>
        /\ Last.ok <=> /\ schema_validate(dom, Last.arg[3]).result
                       /\ redlining_validate(dom, baseline)
        /\ ~Last.ok => /\ pkg.original = Prev.pkg.original
                       /\ pkg.out = Prev.pkg.out

\* a validated save of an edited document that raised on the redlining
\* validator alone
C13_Witness ==
    /\ Last.op = "save"
    /\ Last.arg[2]
    /\ ~Last.ok
    /\ schema_validate(dom, Last.arg[3]).result
    /\ dom # TargetDir(pkg, Last.arg[1]).document
    /\ TargetDir(pkg, Last.arg[1]).exists

-----------------------------------------------------------------------------
(* Properties of the sessions of a script *)

\* the number of w:rsid elements of a w:rsids section whose w:val is rsid
Registered(rsids, rsid) == Cardinality({i \in 1..Len(rsids.vals) : rsids.vals[i] = rsid})

\* the directories the script has written or was given
Directories == {D \in {pkg.original, pkg.out} : D.exists}

\* C20: the settings of an open session hold exactly one w:rsid with the
\* session token, also in a session opened with the same token on a saved
\* result, and no directory holds a second one
C20_TokenRegisteredOnce ==
    /\ hist[1].ok => Registered(pkg.rsids, Rsid) = 1
    /\ \A D \in Directories : Registered(D.rsids, Rsid) <= 1

\* a second session with the same token on the result a first session saved
C20_Witness ==
    /\ pkg.opened = 2
    /\ Last.op = "init"
    /\ \E i \in 2..(Len(hist) - 1) :
          hist[i].op = "save" /\ hist[i].ok /\ hist[i].arg[1] = Last.arg
    /\ Registered(pkg.original.rsids, Rsid) = 1
    /\ pkg.original.rsids.vals # <<Rsid>>

\* the directory the last call, a save, wrote to
SavedDir == TargetDir(pkg, Last.arg[1])

\* the script's last call is a save that returned
Saved == Last.op = "save" /\ Last.ok /\ pkg = Last.st.pkg

\* C19: after a save every comment part that exists in the saved package
\* has a Relationship that targets it and an Override that names it
C19_CommentPartsDeclared ==
    Saved =>
        \A i \in 1..Len(CommentParts) :
            CommentParts[i] \in SavedDir.files
                => /\ has_relationship(SavedDir.rels, CommentParts[i])
                   /\ has_override(SavedDir.types, CommentPartNames[i])

\* the session of the last call added a comment
AddedComments ==
    \E i \in 2..Len(hist) :
        /\ hist[i].op \in {"add_comment", "reply_to_comment"}
        /\ hist[i].ok
        /\ \A j \in (i + 1)..Len(hist) : hist[j].op # "init"

\* the Relationship elements of rels that target the part
RelsOf(rels, target) == {i \in 1..Len(rels) : rels[i].target = target}

\* the Override elements of types that name the part
OverridesOf(types, part_name) == {i \in 1..Len(types) : types[i] = part_name}

\* C18: after a save of a session that added comments the relationships
\* hold exactly one Relationship and the content types exactly one Override
\* for each of the four comment parts, and no two Relationship elements
\* have the same id
C18_DeclaredExactlyOnce ==
    (Saved /\ AddedComments) =>
        /\ \A i \in 1..Len(CommentParts) :
              /\ Cardinality(RelsOf(SavedDir.rels, CommentParts[i])) = 1
              /\ Cardinality(OverridesOf(SavedDir.types, CommentPartNames[i])) = 1
        /\ \A i, j \in 1..Len(SavedDir.rels) :
              SavedDir.rels[i].id = SavedDir.rels[j].id => i = j

\* the comment ids the anchors of kind tag carry in d
AnchorIds(d, tag) == {GetAttr(d, n, "w:id") : n \in {m \in Attached(d) : d[m].tag = tag}}

\* the comment ids with an anchor in d that the session wrote
NewAnchorIds(d) ==
    UNION {AnchorIds(d, tag) \ AnchorIds(baseline, tag) :
             tag \in {"w:commentRangeStart", "w:commentRangeEnd", "w:commentReference"}}

\* D holds the four records of the comment id, correlated through the
\* paragraph-id and the durable-id
FourRecords(D, id) ==
    \E i \in 1..Len(D.comments), j \in 1..Len(D.commentsIds) :
        /\ D.comments[i].id = id
        /\ \E k \in 1..Len(D.commentsExtended) :
              D.commentsExtended[k].para_id = D.comments[i].para_id
        /\ D.commentsIds[j].para_id = D.comments[i].para_id
        /\ \E k \in 1..Len(D.commentsExtensible) :
              D.commentsExtensible[k].durable_id = D.commentsIds[j].durable_id

\* C11: a package that save() has written holds, for every comment id of
\* which the session wrote an anchor, the four records of that comment, and
\* no two range starts of the document carry the same comment id
C11_AllOrNothing ==
    /\ Saved => \A id \in NewAnchorIds(SavedDir.document) : FourRecords(SavedDir, id)
    /\ \A n, m \in Attached(dom) :
          (/\ dom[n].tag = "w:commentRangeStart"
           /\ dom[m].tag = "w:commentRangeStart"
           /\ GetAttr(dom, n, "w:id") = GetAttr(dom, m, "w:id")) => n = m

\* C14: once the script no longer holds the Document, whatever the outcome
\* of its calls or of the constructor, the staging directory is gone
C14_StagingRemovedAtEnd == ~pkg.live => ~pkg.temp_dir

-----------------------------------------------------------------------------
(* The structural validator on edited documents *)

\* revisions followed by a structural validation
NextCheck ==
    \/ \E n \in Targets(dom) : SuggestDeletion(n)
    \/ \E n \in Targets(dom) : RevertInsertion(n)
    \/ \E n \in Targets(dom) : RevertDeletion(n)
    \/ \E o \in Outcomes : SchemaValidate(o)

SpecCheck == InitRev /\ [][NextCheck]_vars

\* every w:delText below a w:ins is below a w:del that is itself below
\* that w:ins
DelTextInsideOwnDel(d) ==
    \A n \in Attached(d) : \A a \in Ancestors(d, n) :
        (d[n].tag = "w:delText" /\ d[a].tag = "w:ins")
            => \E b \in Ancestors(d, n) : d[b].tag = "w:del" /\ a \in Ancestors(d, b)

\* the checks of the battery other than validate_insertions pass
OtherChecksPass(d, o) ==
    \A i \in 1..Len(Battery) :
        Battery[i] # "validate_insertions" => check(d, o, Battery[i])

\* C21: the structural validator accepts a document exactly when, the other
\* checks passing, every w:delText below a w:ins is inside a w:del that is
\* itself inside that w:ins
C21_DelTextInInsertion ==
    (Last.op = "schema_validate" /\ OtherChecksPass(dom, Last.arg))
        => (Last.ok <=> DelTextInsideOwnDel(dom))

-----------------------------------------------------------------------------
(* Properties of the results of the revision operations *)

\* C22: revert_deletion on a w:del returns the w:del and the w:ins it
\* created, whether or not the w:del holds runs; on any other container it
\* returns the container alone
C22_RevertDeletionReturns ==
    (Last.op = "revert_deletion" /\ Last.ok) =>
        IF Before[Last.arg].tag = "w:del"
        THEN /\ Len(Last.ret) = 2
             /\ Last.ret[1] = Last.arg
             /\ Last.ret[2] \notin DOMAIN Before
             /\ dom[Last.ret[2]].tag = "w:ins"
        ELSE Last.ret = <<Last.arg>>

\* the attributes of a tracked change
ChangeAttrs == {"w:id", "w:author", "w:date", "w16du:dateUtc"}

\* the w:ins and w:del elements the last call created
NewChanges == {n \in Attached(dom) : dom[n].tag \in {"w:ins", "w:del"} /\ n \notin DOMAIN Before}

\* C26: every w:ins and w:del that suggest_deletion, revert_insertion or
\* revert_deletion created carries w:id, w:author, w:date and
\* w16du:dateUtc when the call returns, the w:del marker in the run
\* properties of a numbered paragraph included
C26_NewChangesAttributed ==
    (Last.ok /\ Last.op \in {"suggest_deletion", "revert_insertion", "revert_deletion"})
        => \A n \in NewChanges : \A a \in ChangeAttrs : HasAttr(dom, n, a)

\* the last call is a suggest_deletion that returned
Suggested == Last.op = "suggest_deletion" /\ Last.ok

\* the text below the target is what it was, leaf by leaf with its
\* attributes, and no leaf is a w:t any more
TextKept ==
    /\ Leaves(dom, Last.arg) = Leaves(Before, Last.arg)
    /\ getElementsByTagName(dom, Last.arg, "w:t") = <<>>

\* the deletion wrappers the call created: the new w:del elements that are
\* no marker in run properties
NewWrappers == {n \in NewChanges : dom[n].tag = "w:del" /\ dom[Parent(dom, n)].tag # "w:rPr"}

\* one new wrapper: around the run where the run was, or as the last child
\* of the paragraph with the children that are no w:pPr, in their order; the
\* call returns the wrapper of a run and the paragraph itself
OneWrapper ==
    /\ Cardinality(NewWrappers) = 1
    /\ \E w \in NewWrappers :
          IF Before[Last.arg].tag = "w:r"
          THEN /\ dom[w].kids = <<Last.arg>>
               /\ dom[Parent(Before, Last.arg)].kids
                     = Replace(Before[Parent(Before, Last.arg)].kids, Last.arg, w)
               /\ Last.ret = <<w>>
          ELSE /\ dom[w].kids = SelectSeq(Before[Last.arg].kids,
                                          LAMBDA c : Before[c].tag # "w:pPr")
               /\ dom[Last.arg].kids
                     = SelectSeq(Before[Last.arg].kids, LAMBDA c : Before[c].tag = "w:pPr")
                         \o <<w>>
               /\ Last.ret = <<Last.arg>>

\* the nodes that are neither the target, nor below it, nor the parent
\* whose child list takes the wrapper of a run
Outside ==
    {n \in Attached(Before) :
        /\ n \notin Range(<<Last.arg>> \o Descendants(Before, Last.arg))
        /\ ~(Before[Last.arg].tag = "w:r" /\ n = Parent(Before, Last.arg))}

-----------------------------------------------------------------------------
(* The baseline of a session *)

\* word/document.xml of the package as it was when the session was opened
OpenedDocument == hist[1].st.dom

\* C23: the packed baseline stays the document the session was opened on,
\* whatever the calls, and a validating save, also one after an earlier
\* save, gives the verdict of the validators against that document
C23_BaselineImmutable ==
    /\ baseline = OpenedDocument
    /\ (Last.op = "save" /\ Last.arg[2]) =>
          (Last.ok <=> /\ schema_validate(dom, Last.arg[3]).result
                       /\ redlining_validate(dom, OpenedDocument))

\* a validating save that is refused after an earlier save has written the
\* edited document to the caller's directory
C23_Witness ==
    /\ Last.op = "save"
    /\ Last.arg[2]
    /\ ~Last.ok
    /\ schema_validate(dom, Last.arg[3]).result
    /\ pkg.original.document = dom
    /\ dom # OpenedDocument

-----------------------------------------------------------------------------
(* Whitespace in the text the editor inserts *)

\* <w:r><w:t xml:space="default"> v</w:t></w:r>: a leaf that states its own
\* xml:space
FragSpaceDefault == [nodes |-> <<
    Node("w:r", NoAttrs, <<>>, <<2>>),
    Node("w:t", "xml:space" :> "default", <<" ", "v">>, <<>>) >>,
    roots |-> <<1>>]

\* the markup a caller of the primitives passes
TextFrags == {FragRun, FragChanges, FragSpaceDefault}

\* the calls of the primitives a script makes
MaxInserts == 2

\* replace_node, insert_before, insert_after or append_to with the markup
\* frag
Primitive(op, n, frag) ==
    /\ CanCall
    /\ Len(hist) <= MaxInserts
    /\ \E r \in {CASE op = "replace_node" -> replace_node(dom, n, frag, <<>>)
                   [] op = "insert_before" -> insert_before(dom, n, frag, <<>>)
                   [] op = "insert_after" -> insert_after(dom, n, frag, <<>>)
                   [] op = "append_to" -> append_to(dom, n, frag, <<>>)} :
          EditorCall(op, <<n, frag>>, Returned(r))

\* the primitives with text of either kind, and revert_deletion
NextSpace ==
    \/ \E op \in {"replace_node", "insert_before", "insert_after"},
          n \in RunLevel(dom), frag \in TextFrags : Primitive(op, n, frag)
    \/ \E n \in Paragraphs(dom), frag \in TextFrags : Primitive("append_to", n, frag)
    \/ \E n \in Targets(dom) : RevertDeletion(n)

SpecSpace == InitRev /\ [][NextSpace]_vars

\* the w:t elements the last call put into the tree
NewTexts == {n \in Attached(dom) : dom[n].tag = "w:t" /\ n \notin DOMAIN Before}

\* the last call is one of the primitives or revert_deletion, and returned
InsertingCall ==
    /\ Last.ok
    /\ Last.op \in {"replace_node", "insert_before", "insert_after", "append_to",
                    "revert_deletion"}

\* C24 as stated: every w:t that a primitive or revert_deletion put into
\* the tree and whose text starts or ends with whitespace carries
\* xml:space="preserve", so the whitespace check does not report it
C24_NewTextPreserved ==
    InsertingCall =>
        \A n \in NewTexts :
            NeedsPreserve(dom[n].text) => GetAttr(dom, n, "xml:space") = "preserve"

\* the leaves the text of the last call came from: those of the markup the
\* caller passed and those of the tree before the call
SourceSpaces(text) ==
    UNION {{f[i].attrs["xml:space"] :
              i \in {j \in DOMAIN f : /\ f[j].text = text
                                      /\ "xml:space" \in DOMAIN f[j].attrs}} :
           f \in {Before} \cup {g.nodes : g \in {h \in TextFrags :
                                      Last.op # "revert_deletion" /\ h = Last.arg[2]}}}

\* C24: every w:t that a primitive or revert_deletion put into the tree and
\* whose text starts or ends with whitespace carries an xml:space attribute
\* afterwards: "preserve", unless the leaf it was made from already stated
\* another xml:space, which is kept
C24_NewTextPreservedUnlessStated ==
    InsertingCall =>
        \A n \in NewTexts :
            NeedsPreserve(dom[n].text) =>
                /\ HasAttr(dom, n, "xml:space")
                /\ \/ GetAttr(dom, n, "xml:space") = "preserve"
                   \/ GetAttr(dom, n, "xml:space") \in SourceSpaces(dom[n].text)

\* a primitive inserted text that ends with a blank and had no xml:space
C24_Witness ==
    /\ InsertingCall
    /\ Last.op # "revert_deletion"
    /\ Last.arg[2] = FragRun
    /\ \E n \in NewTexts : /\ NeedsPreserve(dom[n].text)
                           /\ GetAttr(dom, n, "xml:space") = "preserve"

-----------------------------------------------------------------------------
(* The attribute injector on markup that states some attributes itself *)

\* <w:ins w:id="40" w:author="Bob"><w:r w:rsidR="R_OLD"><w:t>s</w:t></w:r></w:ins>
\* <w:p w14:paraId="0000000C"><w:r><w:t> t</w:t></w:r></w:p>
FragStated == [nodes |-> <<
    Node("w:ins", ("w:id" :> "40") @@ ("w:author" :> "Bob"), <<>>, <<2>>),
    Node("w:r", "w:rsidR" :> "R_OLD", <<>>, <<3>>),
    Node("w:t", NoAttrs, <<"s">>, <<>>),
    Node("w:p", "w14:paraId" :> "0000000C", <<>>, <<5>>),
    Node("w:r", NoAttrs, <<>>, <<6>>),
    Node("w:t", NoAttrs, <<" ", "t">>, <<>>) >>,
    roots |-> <<1, 4>>]

\* markup with and without attributes of its own
AttrFrags == {FragChanges, FragStated}

\* a primitive whose markup holds a paragraph: hs are the values of
\* _generate_hex_id
PrimitiveHex(op, n, frag, hs) ==
    /\ CanCall
    /\ Len(hist) <= MaxInserts
    /\ \E r \in {CASE op = "insert_before" -> insert_before(dom, n, frag, hs)
                   [] op = "insert_after" -> insert_after(dom, n, frag, hs)} :
          EditorCall(op, <<n, frag>>, Returned(r))

\* the primitives on a paragraph, on run-level content, and the revisions
NextInject ==
    \/ \E op \in {"insert_before", "insert_after"}, n \in Paragraphs(dom),
          frag \in AttrFrags : PrimitiveHex(op, n, frag, <<"0000000A", "0000000B">>)
    \/ \E n \in RunLevel(dom) : Primitive("replace_node", n, FragChanges)
    \/ \E n \in Paragraphs(dom) : Primitive("append_to", n, FragChanges)
    \/ \E n \in Targets(dom) : SuggestDeletion(n)

SpecInject == InitRev /\ [][NextInject]_vars

\* the last call is a primitive that returned
PrimitiveCall ==
    Last.ok /\ Last.op \in {"replace_node", "insert_before", "insert_after", "append_to"}

\* C25: the nodes a primitive created keep every attribute value their
\* markup stated, and the injector run once more on the nodes the primitive
\* returned changes nothing in the tree: no attribute, no further change id
C25_InjectorIdempotent ==
    PrimitiveCall =>
        /\ \A j \in DOMAIN Last.arg[2].nodes : \A a \in DOMAIN Last.arg[2].nodes[j].attrs :
              GetAttr(dom, Len(Before) + j, a) = Last.arg[2].nodes[j].attrs[a]
        /\ inject_attributes_to_nodes([d |-> dom, hs |-> <<"0000000B", "0000000A">>],
                                      Last.ret).d = dom

\* a primitive created a w:ins with an id of its own beside one that took
\* the next id, and a paragraph that kept its paragraph id
C25_Witness ==
    /\ PrimitiveCall
    /\ Last.arg[2] = FragStated
    /\ GetAttr(dom, Len(Before) + 1, "w:id") = "40"
    /\ GetAttr(dom, Len(Before) + 1, "w:date") = Timestamp
    /\ GetAttr(dom, Len(Before) + 4, "w14:textId") \in HexIds
    /\ \E i \in 2..(Len(hist) - 1) : hist[i].op \in {"suggest_deletion", "append_to"}

-----------------------------------------------------------------------------
(* Document.validate() between the edits of a session *)

\* Document.validate(): the validators read the files of the working copy
DocumentValidate(o) ==
    /\ CanCall
    /\ \E passed \in {document_validate(pkg.disk, baseline, o)} :
          hist' = Append(hist, Call("document_validate", o, passed, <<>>, Snapshot(dom)))
    /\ UNCHANGED <<dom, baseline, author, CommentVars, pkg, prs>>

\* edits, tracked or not, validations and saves
NextValidate ==
    \/ \E n \in Targets(dom) : SuggestDeletion(n)
    \/ \E n \in RunLevel(dom) : InsertUntracked(n)
    \/ \E o \in Outcomes : DocumentValidate(o)
    \/ \E destination \in {"original", "out"}, m \in SaveModes :
          Save(destination, m[1], m[2])

SpecValidate == InitRev /\ [][NextValidate]_vars

\* C28: validate() gives the verdict of the validators on the document as
\* the session has edited it, saved or not: the verdict save(validate=True)
\* gives for the same edits
C28_ValidateSeesEdits ==
    Last.op = "document_validate" =>
        (Last.ok <=> /\ schema_validate(dom, Last.arg).result
                     /\ redlining_validate(dom, baseline))

-----------------------------------------------------------------------------
(* The order of the anchors of a comment *)

\* the place of node n of d in document order, the document element first
Pos(d, n) == IF n = Root THEN 0 ELSE IndexOf(Descendants(d, Root), n)

\* the anchor of the last call with this tag: a node the call created
NewAnchor(tag) ==
    CHOOSE n \in Anchors(tag, StrOfInt(Last.ret[1])) : n > Len(Before)

\* the node that follows n among the children of its parent (0: none)
NextSibling(d, n) ==
    LET kids == d[Parent(d, n)].kids
        i == IndexOf(kids, n)
    IN IF i < Len(kids) THEN kids[i + 1] ELSE 0

\* a comment was anchored by the last call: add_comment on a start that is
\* not after its end in the document, or reply_to_comment
Anchored ==
    /\ Last.ok
    /\ \/ Last.op = "reply_to_comment"
       \/ /\ Last.op = "add_comment"
          /\ Pos(Before, Last.arg[1]) <= Pos(Before, Last.arg[2])

\* the anchors of the parent comment of the last call, a reply
ParentAnchor(tag) == CHOOSE n \in Anchors(tag, StrOfInt(Last.arg)) : TRUE

\* C29: the anchors of a new comment stand in the order range-start,
\* range-end, reference run; those of a reply are the node right after the
\* parent's range-start and the two nodes right after the parent's reference
\* run, the range-end first
C29_AnchorOrder ==
    Anchored =>
        LET s == NewAnchor("w:commentRangeStart")
            e == NewAnchor("w:commentRangeEnd")
            r == Parent(dom, NewAnchor("w:commentReference"))
        IN /\ Pos(dom, s) < Pos(dom, e)
           /\ Pos(dom, e) < Pos(dom, r)
           /\ Last.op = "reply_to_comment" =>
                 /\ NextSibling(dom, ParentAnchor("w:commentRangeStart")) = s
                 /\ NextSibling(dom, Parent(dom, ParentAnchor("w:commentReference"))) = e
                 /\ NextSibling(dom, e) = r

-----------------------------------------------------------------------------
(* rearrange.py: a presentation rebuilt from a sequence of slide indices *)

\* most slides of a template
MaxSlides == 3

\* most entries of a slide sequence
MaxSequence == 4

\* a slide: the template slide it shows (of) and what tells it from every
\* other slide of the presentation (id)
Slide(of, id) == [of |-> of, id |-> id]

\* Presentation(path) of a template of n slides
Template(n) == [k \in 1..n |-> Slide(k - 1, k - 1)]

\* list.count(x)
Count(s, x) == Cardinality({i \in 1..Len(s) : s[i] = x})

\* duplicate_slide(pres, index): add_slide appends the new slide, which takes
\* the shapes of the source
duplicate_slide(slides, index) ==
    Append(slides, Slide(slides[index + 1].of, Len(slides)))

\* delete_slide(pres, index)
delete_slide(slides, index) == RemoveAt(slides, index + 1)

\* a move that leaves the slide where it is
reorder_nothing(slides, slide_index, target_index) == slides

\* reorder_slides(pres, slide_index, target_index): slides.remove(element),
\* then slides.insert(target_index, element)
reorder_slides(slides, slide_index, target_index) ==
    InsertAt(RemoveAt(slides, slide_index + 1), target_index,
             <<slides[slide_index + 1]>>)

\* "for idx in slide_sequence: if idx < 0 or idx >= total_slides: raise"
index_error(slide_sequence, total_slides) ==
    \E i \in 1..Len(slide_sequence) :
        slide_sequence[i] < 0 \/ slide_sequence[i] >= total_slides

\* "for _ in range(count): duplicate_slide(prs, template_idx);
\*  duplicates.append(len(prs.slides) - 1)"; r = [slides, duplicates]
RECURSIVE make_duplicates(_, _, _)
make_duplicates(r, template_idx, count) ==
    IF count = 0 THEN r
    ELSE LET slides == duplicate_slide(r.slides, template_idx)
         IN make_duplicates([slides |-> slides,
                             duplicates |-> Append(r.duplicates, Len(slides) - 1)],
                            template_idx, count - 1)

\* step 1, from entry i of the sequence on; l = [slides, slide_map,
\* duplicated], duplicated being the dict original index -> indices of the
\* copies not used yet
RECURSIVE step1(_, _, _)
step1(l, slide_sequence, i) ==
    IF i > Len(slide_sequence) THEN l
    ELSE LET template_idx == slide_sequence[i]
         IN IF /\ template_idx \in DOMAIN l.duplicated
               /\ l.duplicated[template_idx] # <<>>
            THEN step1([l EXCEPT !.slide_map = Append(@, Head(l.duplicated[template_idx])),
                                 !.duplicated[template_idx] = Tail(@)],
                       slide_sequence, i + 1)
            ELSE IF /\ Count(slide_sequence, template_idx) > 1
                    /\ template_idx \notin DOMAIN l.duplicated
            THEN LET r == make_duplicates([slides |-> l.slides, duplicates |-> <<>>],
                                          template_idx,
                                          Count(slide_sequence, template_idx) - 1)
                 IN step1([slides |-> r.slides,
                           slide_map |-> Append(l.slide_map, template_idx),
                           duplicated |-> (template_idx :> r.duplicates) @@ l.duplicated],
                          slide_sequence, i + 1)
            ELSE step1([l EXCEPT !.slide_map = Append(@, template_idx)],
                       slide_sequence, i + 1)

\* "slide_map = [idx - 1 if idx > i else idx for idx in slide_map]"
after_delete(slide_map, i) ==
    [k \in 1..Len(slide_map) |-> IF slide_map[k] > i THEN slide_map[k] - 1
                                 ELSE slide_map[k]]

\* step 2, "for i in range(len(prs.slides) - 1, -1, -1)" from i down;
\* l = [slides, slide_map]
RECURSIVE step2(_, _, _)
step2(l, slides_to_keep, i) ==
    IF i < 0 THEN l
    ELSE IF i \notin slides_to_keep
    THEN step2([slides |-> delete_slide(l.slides, i),
                slide_map |-> Tup(after_delete(l.slide_map, i))],
               slides_to_keep, i - 1)
    ELSE step2(l, slides_to_keep, i - 1)

\* the update of slide_map after the move of current_pos to target_pos
after_move(slide_map, current_pos, target_pos) ==
    [i \in 1..Len(slide_map) |->
        IF i = target_pos + 1 THEN target_pos
        ELSE IF slide_map[i] > current_pos /\ slide_map[i] <= target_pos
        THEN slide_map[i] - 1
        ELSE IF slide_map[i] < current_pos /\ slide_map[i] >= target_pos
        THEN slide_map[i] + 1
        ELSE slide_map[i]]

\* step 3, "for target_pos in range(len(slide_map))" from target_pos on
RECURSIVE step3(_, _)
step3(l, target_pos) ==
    IF target_pos >= Len(l.slide_map) THEN l
    ELSE LET current_pos == l.slide_map[target_pos + 1]
         IN IF current_pos # target_pos
            THEN step3([slides |-> reorder_slides(l.slides, current_pos, target_pos),
                        slide_map |-> Tup(after_move(l.slide_map, current_pos,
                                                     target_pos))],
                       target_pos + 1)
            ELSE step3(l, target_pos + 1)

\* the three steps of rearrange_presentation on the slides of the template
rearranged(slides, slide_sequence) ==
    LET l1 == step1([slides |-> slides, slide_map |-> <<>>, duplicated |-> <<>>],
                    slide_sequence, 1)
        l2 == step2([slides |-> l1.slides, slide_map |-> l1.slide_map],
                    Range(l1.slide_map), Len(l1.slides) - 1)
    IN step3(l2, 0).slides

\* the sequences the command line can name for a template
Sequences ==
    UNION {[1..m -> (0 - 1)..MaxSlides] : m \in 1..MaxSequence}

\* the script is started on a template of n slides with a sequence
InitRearrange ==
    /\ dom = <<>>
    /\ baseline = <<>>
    /\ author = ""
    /\ NoComments
    /\ pkg = [live |-> FALSE]
    /\ hist = <<>>
    /\ \E n \in 1..MaxSlides, slide_sequence \in Sequences :
          prs = [pc |-> "called", template |-> Template(n), slides |-> Template(n),
                 slide_sequence |-> Tup(slide_sequence), saved |-> FALSE]

\* rearrange_presentation(template_path, output_path, slide_sequence)
RearrangePresentation ==
    /\ prs.pc = "called"
    /\ IF index_error(prs.slide_sequence, Len(prs.slides))
       THEN prs' = [prs EXCEPT !.pc = "raised"]
       ELSE prs' = [prs EXCEPT !.pc = "returned", !.saved = TRUE,
                               !.slides = rearranged(prs.slides, prs.slide_sequence)]
    /\ UNCHANGED <<dom, baseline, author, CommentVars, pkg, hist>>

NextRearrange == RearrangePresentation

SpecRearrange == InitRearrange /\ [][NextRearrange]_vars

\* C30: a run on a sequence with all entries in range leaves as many slides
\* as the sequence has entries, the k-th being template slide s[k] or a copy
\* of it and no slide standing at two places; a sequence with an entry out
\* of range raises, and no slide was duplicated, deleted or moved
C30_RequestedOrder ==
    prs.pc # "called" =>
        IF \A i \in 1..Len(prs.slide_sequence) :
              prs.slide_sequence[i] \in 0..(Len(prs.template) - 1)
        THEN /\ prs.pc = "returned"
             /\ prs.saved
             /\ Len(prs.slides) = Len(prs.slide_sequence)
             /\ \A k \in 1..Len(prs.slides) : prs.slides[k].of = prs.slide_sequence[k]
             /\ \A j, k \in 1..Len(prs.slides) :
                   prs.slides[j].id = prs.slides[k].id => j = k
        ELSE /\ prs.pc = "raised"
             /\ ~prs.saved
             /\ prs.slides = prs.template

\* a run that copied a slide, dropped one and moved one
C30_Witness ==
    /\ prs.pc = "returned"
    /\ \E j, k \in 1..Len(prs.slide_sequence) :
          j < k /\ prs.slide_sequence[j] = prs.slide_sequence[k]
    /\ \E j, k \in 1..Len(prs.slide_sequence) :
          j < k /\ prs.slide_sequence[j] > prs.slide_sequence[k]
    /\ \E t \in 0..(Len(prs.template) - 1) : t \notin Range(prs.slide_sequence)
====
